---- MODULE Spec2Model ----
(***************************************************************************)
(* Multi-agent development orchestrator: the agent lifecycle state machine *)
(* (BaseAgent / DevelopmentAgent) and the agent registry (AgentRegistry).  *)
(*                                                                         *)
(* The program is single-threaded JavaScript: an async method runs without *)
(* interruption up to its next await.  Every await of updateStatus(), of   *)
(* cancelCurrentTask() and of an inner async method of the same object     *)
(* resumes after one microtask tick, in FIFO order (microQ).  The hooks    *)
(* initialize(), cleanup() and performTask() are abstract in BaseAgent:    *)
(* they finish at any later moment, by returning or by throwing.           *)
(***************************************************************************)
EXTENDS Integers, Sequences, FiniteSets, TLC

Null == "null"

\* ---------------------------------------------------------------- bounds
MaxCalls == 2

CallIds == 1..MaxCalls

\* ----------------------------------------------------------- text values
\* A text is a sequence of one-character strings, so that toLowerCase() and
\* includes() are computed and not assumed.
UpperCase == <<"A", "B", "C", "D", "E", "F", "G", "H", "I", "J", "K", "L", "M", "N", "O", "P", "Q", "R", "S", "T", "U", "V", "W", "X", "Y", "Z">>

LowerCase == <<"a", "b", "c", "d", "e", "f", "g", "h", "i", "j", "k", "l", "m", "n", "o", "p", "q", "r", "s", "t", "u", "v", "w", "x", "y", "z">>

ToLowerCase(s) ==
  [i \in 1..Len(s) |->
     IF \E k \in 1..Len(UpperCase) : UpperCase[k] = s[i]
       THEN LowerCase[CHOOSE k \in 1..Len(UpperCase) : UpperCase[k] = s[i]]
       ELSE s[i]]

Includes(s, sub) ==
  \E i \in 0..(Len(s) - Len(sub)) : SubSeq(s, i + 1, i + Len(sub)) = sub

\* ------------------------------------------------------------ data types
AgentStatus == {"inactive", "active", "busy", "error", "starting", "stopping"}

AgentRole == {"orchestrator", "frontend", "backend", "devops", "qa", "full_stack"}

\* The agent objects: development agents of three roles.
AgentIds == {"a1", "a2", "a3"}

RoleOf == [a \in AgentIds |-> CASE a = "a1" -> "frontend" [] a = "a2" -> "backend" [] a = "a3" -> "qa"]

\* DevelopmentAgent.addDefaultCapabilities: the capabilities of an agent of
\* each role, in the order they are added.
DefaultCapabilities ==
  [r \in {"frontend", "backend", "qa"} |->
     CASE r = "frontend" ->
       << [name |-> <<"g", "i", "t">>, level |-> 8],
        [name |-> <<"c", "o", "d", "i", "n", "g">>, level |-> 7],
        [name |-> <<"f", "i", "l", "e", "-", "m", "a", "n", "a", "g", "e", "m", "e", "n", "t">>, level |-> 9],
        [name |-> <<"d", "e", "b", "u", "g", "g", "i", "n", "g">>, level |-> 6],
        [name |-> <<"j", "a", "v", "a", "s", "c", "r", "i", "p", "t">>, level |-> 8],
        [name |-> <<"r", "e", "a", "c", "t">>, level |-> 7],
        [name |-> <<"c", "s", "s">>, level |-> 8],
        [name |-> <<"h", "t", "m", "l">>, level |-> 9] >>
       [] r = "backend" ->
       << [name |-> <<"g", "i", "t">>, level |-> 8],
        [name |-> <<"c", "o", "d", "i", "n", "g">>, level |-> 7],
        [name |-> <<"f", "i", "l", "e", "-", "m", "a", "n", "a", "g", "e", "m", "e", "n", "t">>, level |-> 9],
        [name |-> <<"d", "e", "b", "u", "g", "g", "i", "n", "g">>, level |-> 6],
        [name |-> <<"n", "o", "d", "e", "j", "s">>, level |-> 8],
        [name |-> <<"d", "a", "t", "a", "b", "a", "s", "e", "s">>, level |-> 7],
        [name |-> <<"a", "p", "i", "s">>, level |-> 8],
        [name |-> <<"s", "e", "r", "v", "e", "r", "-", "a", "r", "c", "h", "i", "t", "e", "c", "t", "u", "r", "e">>, level |-> 6] >>
       [] r = "qa" ->
       << [name |-> <<"g", "i", "t">>, level |-> 8],
        [name |-> <<"c", "o", "d", "i", "n", "g">>, level |-> 7],
        [name |-> <<"f", "i", "l", "e", "-", "m", "a", "n", "a", "g", "e", "m", "e", "n", "t">>, level |-> 9],
        [name |-> <<"d", "e", "b", "u", "g", "g", "i", "n", "g">>, level |-> 6],
        [name |-> <<"t", "e", "s", "t", "i", "n", "g">>, level |-> 9],
        [name |-> <<"t", "e", "s", "t", "-", "a", "u", "t", "o", "m", "a", "t", "i", "o", "n">>, level |-> 7],
        [name |-> <<"q", "u", "a", "l", "i", "t", "y", "-", "m", "e", "t", "r", "i", "c", "s">>, level |-> 8] >>]

CapabilitiesOf(a) == DefaultCapabilities[RoleOf[a]]

\* The tasks.  t1: a feature that needs "javascript"; t2: a deployment with
\* no requirement at all; t3: a feature that needs "SQL", which no agent
\* offers; t4: a bug fix that needs "GIT" and has a quality requirement; t5:
\* a test with a quality requirement and no technical one.
Tasks == {"t1", "t2", "t3", "t4", "t5"}

TaskType ==
  [t \in Tasks |->
     CASE t = "t1" -> <<"f", "e", "a", "t", "u", "r", "e">> [] t = "t2" -> <<"d", "e", "p", "l", "o", "y", "m", "e", "n", "t">>
       [] t = "t3" -> <<"f", "e", "a", "t", "u", "r", "e">> [] t = "t4" -> <<"b", "u", "g", "_", "f", "i", "x">>
       [] t = "t5" -> <<"t", "e", "s", "t">>]

TaskRequirements ==
  [t \in Tasks |->
     CASE t = "t1" -> << [description |-> <<"j", "a", "v", "a", "s", "c", "r", "i", "p", "t">>, type |-> "technical"] >>
       [] t = "t2" -> << >>
       [] t = "t3" -> << [description |-> <<"S", "Q", "L">>, type |-> "technical"] >>
       [] t = "t4" -> << [description |-> <<"G", "I", "T">>, type |-> "technical"],
                         [description |-> <<"t", "e", "s", "t", "e", "d">>, type |-> "quality"] >>
       [] t = "t5" -> << [description |-> <<"t", "e", "s", "t", "e", "d">>, type |-> "quality"] >>]

\* The descriptions of the technical requirements of a task.
TechnicalDescriptions(t) ==
  {TaskRequirements[t][i].description :
     i \in {j \in 1..Len(TaskRequirements[t]) : TaskRequirements[t][j].type = "technical"}}

SupportedTaskTypes == {<<"f", "e", "a", "t", "u", "r", "e">>, <<"b", "u", "g", "_", "f", "i", "x">>, <<"r", "e", "f", "a", "c", "t", "o", "r">>, <<"c", "o", "d", "e", "_", "r", "e", "v", "i", "e", "w">>, <<"d", "o", "c", "u", "m", "e", "n", "t", "a", "t", "i", "o", "n">>}

MinCapabilityLevel == 5

\* DevelopmentAgent.canHandleTask
canHandleTask(a, t) ==
  /\ TaskType[t] \in SupportedTaskTypes
  /\ \A d \in TechnicalDescriptions(t) :
       \E i \in 1..Len(CapabilitiesOf(a)) :
         /\ Includes(ToLowerCase(CapabilitiesOf(a)[i].name), ToLowerCase(d))
         /\ CapabilitiesOf(a)[i].level >= MinCapabilityLevel

\* ------------------------------------------------------------- variables
VARIABLES
  status,               \* BaseAgent.status
  currentTask,          \* BaseAgent.currentTask (Null or a task)
  healthCheckInterval,  \* BaseAgent.healthCheckInterval: {} for null, else {the timer it refers to}
  timers,               \* the setInterval timers still scheduled (named by the call that set them)
  metrics,              \* BaseAgent.metrics: tasksCompleted and successRate (num / den)
  calls,                \* the async calls made on the agent and where each stands
  microQ                \* the calls waiting for their next microtask tick, oldest first

agentVars == <<status, currentTask, healthCheckInterval, timers, metrics, calls, microQ>>

VARIABLES
  agents,             \* AgentRegistry.agents: the registered agent ids, in Map insertion order
  agentConfigs,       \* AgentRegistry.agentConfigs: agent id -> the config it was registered with
  assignmentHistory,  \* AgentRegistry.assignmentHistory
  agentStatus,        \* the status field of each agent object
  agentMetrics,       \* metrics of each agent object: successRate (in 1/1000) and codeQualityScore
  stopping,           \* the unregisterAgent / cleanup call waiting for stop() to settle (one at a time)
  scan,               \* the findBestAgentForTask / assignTaskToAgent call that is being awaited
  lastOp              \* the registry call that ended last: its outcome and what it emitted

regVars ==
  <<agents, agentConfigs, assignmentHistory, agentStatus, agentMetrics, stopping, scan, lastOp>>

VARIABLES
  autoRestart,                  \* AgentRegistryConfig.autoRestart
  registryHealthCheckInterval,  \* AgentRegistry.healthCheckInterval: {} for null, else {the timer it refers to}
  registryTimers,               \* the registry's setInterval timers still scheduled
  poll,                         \* the health-supervision poll that is awaiting getSystemHealth
  restarting,                   \* the agents whose restart(), called by a poll, has not settled
  uncaught,                     \* the agents whose failed restart() escaped its poll as an unhandled rejection
  lastPoll                      \* the poll that ended last: the agents it called restart() on

supVars ==
  <<autoRestart, registryHealthCheckInterval, registryTimers, poll, restarting, uncaught, lastPoll>>

VARIABLES
  worktrees,  \* WorktreeManager.worktrees: the WorktreeInfo records, in Map insertion order
  dirs,       \* the linked worktrees on disk (path and HEAD), in the order git lists them
  now,        \* the clock
  lastWt      \* the WorktreeManager call that ended last

wtVars == <<worktrees, dirs, now, lastWt>>

VARIABLES
  strategies,    \* AutomaticConflictResolver.strategies: the names of the strategies, in registration order
  run,           \* the resolveConflicts call that is awaiting, or that ended last
  written,       \* the files writeResolvedContent wrote, in the order of the writes
  source,        \* the file parseConflictFile is given: its path and its content
  parsed,        \* the ConflictInfo parseConflictFile returned last
  eventHistory,  \* EventBus.eventHistory
  emitted        \* the number of events EventBus.emit was given so far

gitVars == <<strategies, run, written, source, parsed, eventHistory, emitted>>

VARIABLES
  managerConfig,     \* ConfigManager.config: the configuration held, or null
  configFile,        \* the file at ConfigManager.configPath
  lastConfig,        \* what the last ConfigManager call did
  cwd,               \* process.cwd(): the working directory of the process
  personalWorktree,  \* DevelopmentAgent.personalWorktree, of each agent
  bodies             \* DevelopmentAgent.performTask, of each agent: where it stands

procVars == <<managerConfig, configFile, lastConfig, cwd, personalWorktree, bodies>>

vars == <<agentVars, regVars, supVars, wtVars, gitVars, procVars>>

\* What an action of the agent, and one of the registry, leaves alone.
outsideAgent == <<regVars, supVars, wtVars, gitVars, procVars>>

outsideRegistry == <<agentVars, supVars, wtVars, gitVars, procVars>>

\* ------------------------------------------ the conflict resolver, idle
\* AutomaticConflictResolver.registerDefaultStrategies: the names of the
\* built-in strategies, in the order they are pushed.
DefaultStrategies ==
  <<"Whitespace Conflict Resolver", "Import Order Conflict Resolver",
    "Simple Addition Conflict Resolver", "Package.json Conflict Resolver">>

\* No resolveConflicts was called yet.
IdleRun ==
  [pc |-> "idle", conflicts |-> << >>, idx |-> 0, results |-> << >>, strategy |-> Null]

\* No file was parsed yet.
NoSource == [file |-> Null, content |-> << >>]

NoConflict ==
  [file |-> Null, type |-> "merge", sections |-> << >>, severity |-> "low",
   autoResolvable |-> FALSE]


\* The agent whose lifecycle is followed call by call, and the tasks given to it.
TheAgent == "a1"

AgentTasks == {"t1", "t2", "t3"}

IdleCall ==
  [op |-> "none", pc |-> "idle", task |-> Null, atCall |-> Null, taskAtCall |-> Null,
   atStart |-> Null, startFrom |-> 0, held |-> Null, solo |-> TRUE, bodyRan |-> FALSE,
   body |-> "none", result |-> "none", trace |-> << >>]

InFlight(c) == calls[c].pc \notin {"idle", "returned", "threw"}

\* The next call to be made: calls are numbered in the order they are made.
NextCall(c) == calls[c].pc = "idle" /\ \A d \in CallIds : d < c => calls[d].pc # "idle"

Entry(e, v, why) == [e |-> e, v |-> v, why |-> why]

\* A step of call c: c's record becomes rec, and every other call that was
\* made has now seen another operation act on the agent.
Step(c, rec) ==
  [d \in CallIds |->
     IF d = c THEN rec
     ELSE IF calls[d].pc = "idle" THEN calls[d]
     ELSE [calls[d] EXCEPT !.solo = FALSE]]

Invoked(c, op, t) ==
  [IdleCall EXCEPT !.op = op, !.task = t, !.atCall = status, !.taskAtCall = currentTask,
                   !.solo = \A d \in CallIds : ~InFlight(d)]

\* BaseAgent.updateStatus, as seen in the trace of the call that runs it:
\* the write, and whether agent:status_changed was emitted.
StatusEntry(s) == Entry("status", s, IF status # s THEN "changed" ELSE "same")

\* BaseAgent.updateMetrics
updateMetrics(success) ==
  LET completed == metrics.tasksCompleted + (IF success THEN 1 ELSE 0)
      totalTasks == completed + (IF success THEN 0 ELSE 1)
  IN [tasksCompleted |-> completed, successNum |-> completed, successDen |-> totalTasks]

\* ------------------------------------------------------ BaseAgent.start
\* start() up to its first await: updateStatus(STARTING).
StartBegin(c, rec) ==
  /\ status' = "starting"
  /\ calls' = Step(c, [rec EXCEPT !.pc = "s_starting", !.atStart = status,
                                  !.startFrom = Len(rec.trace),
                                  !.trace = Append(@, StatusEntry("starting"))])
  /\ microQ' = Append(microQ, c)
  /\ UNCHANGED <<currentTask, healthCheckInterval, timers, metrics>>

StartCall(c) ==
  /\ NextCall(c)
  /\ StartBegin(c, Invoked(c, "start", Null))
  /\ UNCHANGED outsideAgent

\* The await of updateStatus(STARTING) resumes: initialize() is called.
StartRunInitialize(c) ==
  /\ calls[c].pc = "s_starting"
  /\ microQ # << >> /\ Head(microQ) = c
  /\ microQ' = Tail(microQ)
  /\ calls' = Step(c, [calls[c] EXCEPT !.pc = "s_init"])
  /\ UNCHANGED <<status, currentTask, healthCheckInterval, timers, metrics>>
  /\ UNCHANGED outsideAgent

\* initialize() returned: startHealthMonitoring(), updateStatus(ACTIVE).
InitializeReturns(c) ==
  /\ calls[c].pc = "s_init"
  /\ healthCheckInterval' = {c}
  /\ timers' = timers \cup {c}
  /\ status' = "active"
  /\ calls' = Step(c, [calls[c] EXCEPT !.pc = "s_active",
                                       !.trace = Append(@, StatusEntry("active"))])
  /\ microQ' = Append(microQ, c)
  /\ UNCHANGED <<currentTask, metrics>>
  /\ UNCHANGED outsideAgent

\* A start() that schedules its health-check timer before initialize() and
\* leaves it scheduled when initialize() throws.
InitializeThrowsTimerLeft(c) ==
  /\ calls[c].pc = "s_init"
  /\ healthCheckInterval' = {c}
  /\ timers' = timers \cup {c}
  /\ status' = "error"
  /\ calls' = Step(c, [calls[c] EXCEPT !.pc = "s_error",
                                       !.trace = Append(@, StatusEntry("error"))])
  /\ microQ' = Append(microQ, c)
  /\ UNCHANGED <<currentTask, metrics>>
  /\ UNCHANGED outsideAgent

\* initialize() threw: the catch block runs updateStatus(ERROR).
InitializeThrows(c) ==
  /\ calls[c].pc = "s_init"
  /\ status' = "error"
  /\ calls' = Step(c, [calls[c] EXCEPT !.pc = "s_error",
                                       !.trace = Append(@, StatusEntry("error"))])
  /\ microQ' = Append(microQ, c)
  /\ UNCHANGED <<currentTask, healthCheckInterval, timers, metrics>>
  /\ UNCHANGED outsideAgent

\* The await of updateStatus(ACTIVE) resumes: agent:started is emitted and
\* start() returns.
StartFinish(c) ==
  /\ calls[c].pc = "s_active"
  /\ microQ # << >> /\ Head(microQ) = c
  /\ microQ' = Tail(microQ)
  /\ calls' = Step(c, [calls[c] EXCEPT !.pc = "returned",
                                       !.trace = Append(@, Entry("agent:started", Null, Null))])
  /\ UNCHANGED <<status, currentTask, healthCheckInterval, timers, metrics>>
  /\ UNCHANGED outsideAgent

\* The await of updateStatus(ERROR) resumes: the error is thrown to the caller.
StartRethrow(c) ==
  /\ calls[c].pc = "s_error"
  /\ microQ # << >> /\ Head(microQ) = c
  /\ microQ' = Tail(microQ)
  /\ calls' = Step(c, [calls[c] EXCEPT !.pc = "threw"])
  /\ UNCHANGED <<status, currentTask, healthCheckInterval, timers, metrics>>
  /\ UNCHANGED outsideAgent

\* ------------------------------------------------------- BaseAgent.stop
\* stop() up to its first await: updateStatus(STOPPING).
StopBegin(c, rec) ==
  /\ status' = "stopping"
  /\ calls' = Step(c, [rec EXCEPT !.pc = "p_stopping",
                                  !.trace = Append(@, StatusEntry("stopping"))])
  /\ microQ' = Append(microQ, c)
  /\ UNCHANGED <<currentTask, healthCheckInterval, timers, metrics>>

StopCall(c) ==
  /\ NextCall(c)
  /\ StopBegin(c, Invoked(c, "stop", Null))
  /\ UNCHANGED outsideAgent

\* BaseAgent.stopHealthMonitoring
stopHealthMonitoring ==
  /\ healthCheckInterval' = {}
  /\ timers' = timers \ healthCheckInterval

\* A stop() that goes to cleanup() without cancelling the held task.
StopResumeWithoutCancel(c) ==
  /\ calls[c].pc = "p_stopping"
  /\ microQ # << >> /\ Head(microQ) = c
  /\ stopHealthMonitoring
  /\ calls' = Step(c, [calls[c] EXCEPT !.pc = "p_cleanup"])
  /\ microQ' = Tail(microQ)
  /\ UNCHANGED <<status, currentTask, metrics>>
  /\ UNCHANGED outsideAgent

\* The await of updateStatus(STOPPING) resumes: stopHealthMonitoring(), then
\* cancelCurrentTask() if a task is held (task:failed, reason 'Agent
\* shutdown', currentTask cleared, and its await), else cleanup() is called.
StopResume(c) ==
  /\ calls[c].pc = "p_stopping"
  /\ microQ # << >> /\ Head(microQ) = c
  /\ stopHealthMonitoring
  /\ IF currentTask # Null
       THEN /\ currentTask' = Null
            /\ calls' = Step(c, [calls[c] EXCEPT
                           !.pc = "p_cancelled", !.held = currentTask,
                           !.trace = Append(@, Entry("task:failed", currentTask, "shutdown"))])
            /\ microQ' = Append(Tail(microQ), c)
       ELSE /\ currentTask' = currentTask
            /\ calls' = Step(c, [calls[c] EXCEPT !.pc = "p_cleanup"])
            /\ microQ' = Tail(microQ)
  /\ UNCHANGED <<status, metrics>>
  /\ UNCHANGED outsideAgent

\* The await of cancelCurrentTask() resumes: cleanup() is called.
StopRunCleanup(c) ==
  /\ calls[c].pc = "p_cancelled"
  /\ microQ # << >> /\ Head(microQ) = c
  /\ microQ' = Tail(microQ)
  /\ calls' = Step(c, [calls[c] EXCEPT !.pc = "p_cleanup"])
  /\ UNCHANGED <<status, currentTask, healthCheckInterval, timers, metrics>>
  /\ UNCHANGED outsideAgent

\* cleanup() returned: updateStatus(INACTIVE).
CleanupReturns(c) ==
  /\ calls[c].pc = "p_cleanup"
  /\ status' = "inactive"
  /\ calls' = Step(c, [calls[c] EXCEPT !.pc = "p_inactive",
                                       !.trace = Append(@, StatusEntry("inactive"))])
  /\ microQ' = Append(microQ, c)
  /\ UNCHANGED <<currentTask, healthCheckInterval, timers, metrics>>
  /\ UNCHANGED outsideAgent

\* A restart() that swallows the failure of its stop() and goes on to start().
CleanupThrowsRestartGoesOn(c) ==
  /\ calls[c].pc = "p_cleanup"
  /\ calls' = Step(c, [calls[c] EXCEPT
                 !.pc = IF calls[c].op = "restart" THEN "r_stopped" ELSE "threw"])
  /\ microQ' = IF calls[c].op = "restart" THEN Append(microQ, c) ELSE microQ
  /\ UNCHANGED <<status, currentTask, healthCheckInterval, timers, metrics>>
  /\ UNCHANGED outsideAgent

\* cleanup() threw: the catch block of stop() logs and rethrows; restart()
\* has no handler, so the error ends it too.
CleanupThrows(c) ==
  /\ calls[c].pc = "p_cleanup"
  /\ calls' = Step(c, [calls[c] EXCEPT !.pc = "threw"])
  /\ UNCHANGED <<status, currentTask, healthCheckInterval, timers, metrics, microQ>>
  /\ UNCHANGED outsideAgent

\* The await of updateStatus(INACTIVE) resumes: agent:stopped is emitted and
\* stop() returns; inside restart() the await of stop() then takes one tick.
StopFinish(c) ==
  /\ calls[c].pc = "p_inactive"
  /\ microQ # << >> /\ Head(microQ) = c
  /\ calls' = Step(c, [calls[c] EXCEPT
                 !.pc = IF calls[c].op = "restart" THEN "r_stopped" ELSE "returned",
                 !.trace = Append(@, Entry("agent:stopped", Null, Null))])
  /\ microQ' = IF calls[c].op = "restart" THEN Append(Tail(microQ), c) ELSE Tail(microQ)
  /\ UNCHANGED <<status, currentTask, healthCheckInterval, timers, metrics>>
  /\ UNCHANGED outsideAgent

\* ---------------------------------------------------- BaseAgent.restart
RestartCall(c) ==
  /\ NextCall(c)
  /\ StopBegin(c, Invoked(c, "restart", Null))
  /\ UNCHANGED outsideAgent

\* The await of stop() resumes inside restart(): start() is called.
RestartRunStart(c) ==
  /\ calls[c].pc = "r_stopped"
  /\ microQ # << >> /\ Head(microQ) = c
  /\ status' = "starting"
  /\ calls' = Step(c, [calls[c] EXCEPT !.pc = "s_starting", !.atStart = status,
                                       !.startFrom = Len(calls[c].trace),
                                       !.trace = Append(@, StatusEntry("starting"))])
  /\ microQ' = Append(Tail(microQ), c)
  /\ UNCHANGED <<currentTask, healthCheckInterval, timers, metrics>>
  /\ UNCHANGED outsideAgent

\* ------------------------------------------------ BaseAgent.executeTask
\* executeTask(task) up to its first await: updateStatus(BUSY).
ExecuteTaskCall(c, t) ==
  /\ NextCall(c)
  /\ status' = "busy"
  /\ calls' = Step(c, [Invoked(c, "executeTask", t) EXCEPT
                         !.pc = "e_busy", !.trace = Append(@, StatusEntry("busy"))])
  /\ microQ' = Append(microQ, c)
  /\ UNCHANGED <<currentTask, healthCheckInterval, timers, metrics>>
  /\ UNCHANGED outsideAgent

\* A catch block that forgets to clear currentTask.
ExecuteTaskCatchKeepsTask(c, rec) ==
  /\ metrics' = updateMetrics(FALSE)
  /\ currentTask' = currentTask
  /\ status' = "active"
  /\ calls' = Step(c, [rec EXCEPT !.pc = "e_failing",
                                  !.result = "error",
                                  !.trace = Append(@, StatusEntry("active"))])

\* The catch block of executeTask: the error result, updateMetrics,
\* currentTask cleared, updateStatus(ACTIVE).
ExecuteTaskCatch(c, rec) ==
  /\ metrics' = updateMetrics(FALSE)
  /\ currentTask' = Null
  /\ status' = "active"
  /\ calls' = Step(c, [rec EXCEPT !.pc = "e_failing",
                                  !.result = "error",
                                  !.trace = Append(@, StatusEntry("active"))])

\* The await of updateStatus(BUSY) resumes: currentTask is set, task:started
\* is emitted, and canHandleTask decides between the throw and performTask.
ExecuteTaskResume(c) ==
  /\ calls[c].pc = "e_busy"
  /\ microQ # << >> /\ Head(microQ) = c
  /\ LET started == [calls[c] EXCEPT
                       !.trace = Append(@, Entry("task:started", calls[c].task, Null))]
     IN IF canHandleTask(TheAgent, calls[c].task)
          THEN /\ currentTask' = calls[c].task
               /\ calls' = Step(c, [started EXCEPT !.pc = "e_body", !.bodyRan = TRUE])
               /\ microQ' = Tail(microQ)
               /\ UNCHANGED <<status, metrics>>
          ELSE /\ ExecuteTaskCatch(c, started)
               /\ microQ' = Append(Tail(microQ), c)
  /\ UNCHANGED <<healthCheckInterval, timers>>
  /\ UNCHANGED outsideAgent

\* performTask returned a result (success or not): updateMetrics,
\* currentTask cleared, updateStatus(ACTIVE).
PerformTaskReturns(c, success) ==
  /\ calls[c].pc = "e_body"
  /\ metrics' = updateMetrics(success)
  /\ currentTask' = Null
  /\ status' = "active"
  /\ calls' = Step(c, [calls[c] EXCEPT
                 !.pc = "e_completing", !.body = IF success THEN "ok" ELSE "failed",
                 !.result = IF success THEN "success" ELSE "failure",
                 !.trace = Append(@, StatusEntry("active"))])
  /\ microQ' = Append(microQ, c)
  /\ UNCHANGED <<healthCheckInterval, timers>>
  /\ UNCHANGED outsideAgent

\* performTask threw: the catch block.
PerformTaskThrows(c) ==
  /\ calls[c].pc = "e_body"
  /\ ExecuteTaskCatch(c, [calls[c] EXCEPT !.body = "threw"])
  /\ microQ' = Append(microQ, c)
  /\ UNCHANGED <<healthCheckInterval, timers>>
  /\ UNCHANGED outsideAgent

\* The await of updateStatus(ACTIVE) resumes: task:completed after a result
\* of performTask, task:failed after the catch block; the result is returned.
ExecuteTaskFinish(c) ==
  /\ calls[c].pc \in {"e_completing", "e_failing"}
  /\ microQ # << >> /\ Head(microQ) = c
  /\ microQ' = Tail(microQ)
  /\ calls' = Step(c, [calls[c] EXCEPT
                 !.pc = "returned",
                 !.trace = Append(@, IF calls[c].pc = "e_completing"
                                       THEN Entry("task:completed", calls[c].task, Null)
                                       ELSE Entry("task:failed", calls[c].task, "error"))])
  /\ UNCHANGED <<status, currentTask, healthCheckInterval, timers, metrics>>
  /\ UNCHANGED outsideAgent

\* ======================================================== AgentRegistry
\* ---------------------------------------------------------------- bounds
\* AgentRegistryConfig.maxAgents
maxAgents == 2

\* The longest assignment history followed.
MaxAssignments == 2

\* ---------------------------------------------------------------- inputs
IdText == [a \in AgentIds |-> CASE a = "a1" -> <<"a", "1">> [] a = "a2" -> <<"a", "2">> [] a = "a3" -> <<"a", "3">>]

\* The AgentConfig an agent is normally registered with.
ConfigOf(a) ==
  [id |-> IdText[a], name |-> <<"d", "e", "v">>, role |-> RoleOf[a],
   workingDirectory |-> <<"/", "w">>, maxConcurrentTasks |-> 3]

\* The configs given to registerAgent: the agent's own, and that config with
\* one field spoilt.
ConfigInputsOf ==
  [a \in AgentIds |->
  {ConfigOf(a),
   [ConfigOf(a) EXCEPT !.id = << >>],
   [ConfigOf(a) EXCEPT !.id = <<" ", " ">>],
   [ConfigOf(a) EXCEPT !.name = <<" ">>],
   [ConfigOf(a) EXCEPT !.role = "manager"],
   [ConfigOf(a) EXCEPT !.workingDirectory = << >>],
   [ConfigOf(a) EXCEPT !.maxConcurrentTasks = 0]}]

ConfigInputs(a) == ConfigInputsOf[a]

\* The agentId argument of assignTaskToAgent: the id of an agent, an id no
\* agent has, the empty string, or no argument.
Undefined == "undefined"

AgentIdInputs == {"a2", "a3", "zz", "", Undefined}

\* The metrics of an agent that has run no task (BaseAgent constructor), and
\* of one whose tasks all succeeded.  successRate is in 1/1000.
FreshMetrics == [successRate |-> 0, codeQualityScore |-> 85]

ProvenMetrics == [successRate |-> 1000, codeQualityScore |-> 85]

\* ------------------------------------------------------- pure functions
\* String.prototype.trim, for texts whose only white space is the blank.
RECURSIVE TrimStart(_)
TrimStart(s) == IF s # << >> /\ Head(s) = " " THEN TrimStart(Tail(s)) ELSE s

RECURSIVE TrimEnd(_)
TrimEnd(s) == IF s # << >> /\ s[Len(s)] = " " THEN TrimEnd(SubSeq(s, 1, Len(s) - 1)) ELSE s

Trim(s) == TrimEnd(TrimStart(s))

\* A validateAgentConfig that does not look at maxConcurrentTasks.
validateAgentConfigAnyTasks(config) ==
  IF config.id = << >> \/ Trim(config.id) = << >> THEN "AgentIdRequired"
  ELSE IF config.name = << >> \/ Trim(config.name) = << >> THEN "AgentNameRequired"
  ELSE IF config.role \notin AgentRole THEN "InvalidAgentRole"
  ELSE IF config.workingDirectory = << >> \/ Trim(config.workingDirectory) = << >>
    THEN "WorkingDirectoryRequired"
  ELSE "ok"

\* AgentRegistry.validateAgentConfig: "ok", or the error it throws.
validateAgentConfig(config) ==
  IF config.id = << >> \/ Trim(config.id) = << >> THEN "AgentIdRequired"
  ELSE IF config.name = << >> \/ Trim(config.name) = << >> THEN "AgentNameRequired"
  ELSE IF config.role \notin AgentRole THEN "InvalidAgentRole"
  ELSE IF config.workingDirectory = << >> \/ Trim(config.workingDirectory) = << >>
    THEN "WorkingDirectoryRequired"
  ELSE IF config.maxConcurrentTasks < 1 THEN "MaxConcurrentTasksTooLow"
  ELSE "ok"

Range(s) == {s[i] : i \in 1..Len(s)}

\* AgentRegistry.canAgentHandleTask
canAgentHandleTask ==
  [a \in AgentIds, t \in Tasks |->
     \A capability \in TechnicalDescriptions(t) :
       \E i \in 1..Len(CapabilitiesOf(a)) :
         Includes(ToLowerCase(CapabilitiesOf(a)[i].name), ToLowerCase(capability))]

compatibility ==
  [r \in AgentRole |->
     CASE r = "frontend" ->
            {<<"f", "r", "o", "n", "t", "e", "n", "d">>, <<"u", "i">>, <<"c", "o", "m", "p", "o", "n", "e", "n", "t">>, <<"s", "t", "y", "l", "i", "n", "g">>}
       [] r = "backend" ->
            {<<"b", "a", "c", "k", "e", "n", "d">>, <<"a", "p", "i">>, <<"d", "a", "t", "a", "b", "a", "s", "e">>, <<"s", "e", "r", "v", "e", "r">>}
       [] r = "devops" ->
            {<<"d", "e", "p", "l", "o", "y", "m", "e", "n", "t">>, <<"i", "n", "f", "r", "a", "s", "t", "r", "u", "c", "t", "u", "r", "e">>, <<"c", "i", "/", "c", "d">>, <<"m", "o", "n", "i", "t", "o", "r", "i", "n", "g">>}
       [] r = "qa" ->
            {<<"t", "e", "s", "t", "i", "n", "g">>, <<"q", "u", "a", "l", "i", "t", "y">>, <<"v", "a", "l", "i", "d", "a", "t", "i", "o", "n">>, <<"b", "u", "g">>}
       [] r = "full_stack" ->
            {<<"f", "r", "o", "n", "t", "e", "n", "d">>, <<"b", "a", "c", "k", "e", "n", "d">>, <<"u", "i">>, <<"a", "p", "i">>}
       [] r = "orchestrator" ->
            {<<"c", "o", "o", "r", "d", "i", "n", "a", "t", "i", "o", "n">>, <<"m", "a", "n", "a", "g", "e", "m", "e", "n", "t">>, <<"p", "l", "a", "n", "n", "i", "n", "g">>}]

\* Confidence is counted in 1/10000: 0.3 is 3000.
\* AgentRegistry.getRoleTaskBonus
getRoleTaskBonus ==
  [role \in AgentRole, taskType \in {TaskType[t] : t \in Tasks} |->
     IF \E keyword \in compatibility[role] : Includes(ToLowerCase(taskType), keyword)
       THEN 3000 ELSE 0]

Min(x, y) == IF x < y THEN x ELSE y

\* A calculateCapabilityScore without the flat 0.2 of a task that has no
\* technical requirement.
calculateCapabilityScoreNoFlat == [a \in AgentIds, t \in Tasks |-> 0]

\* AgentRegistry.calculateCapabilityScore
calculateCapabilityScore ==
  [a \in AgentIds, t \in Tasks |->
     LET requiredCapabilities ==
           Cardinality({j \in 1..Len(TaskRequirements[t]) : TaskRequirements[t][j].type = "technical"})
         matchingCapabilities ==
           {i \in 1..Len(CapabilitiesOf(a)) :
              \E j \in 1..Len(TaskRequirements[t]) :
                Includes(ToLowerCase(TaskRequirements[t][j].description),
                         ToLowerCase(CapabilitiesOf(a)[i].name))}
     IN IF requiredCapabilities = 0 THEN 2000
        ELSE Min(3000, (Cardinality(matchingCapabilities) * 3000) \div requiredCapabilities)]

\* A calculateLoadScore that takes every agent to be free.
calculateLoadScoreAlwaysFree(a) == 2000

\* AgentRegistry.calculateLoadScore
calculateLoadScore(a) ==
  IF agentStatus[a] = "active" THEN 2000
  ELSE IF agentStatus[a] = "busy" THEN 1000
  ELSE 0

\* A calculatePerformanceScore that takes the agent to have no metrics: 0.1.
calculatePerformanceScoreNoMetrics(a) == 1000

\* AgentRegistry.calculatePerformanceScore:
\* min(0.2, (successRate + codeQualityScore / 100) / 2 * 0.2)
calculatePerformanceScore(a) ==
  Min(2000, agentMetrics[a].successRate + 10 * agentMetrics[a].codeQualityScore)

\* AgentRegistry.calculateAgentTaskMatch: the confidence of the match.
calculateAgentTaskMatch(a, t) ==
  Min(10000, getRoleTaskBonus[RoleOf[a], TaskType[t]] + calculateCapabilityScore[a, t]
               + calculateLoadScore(a) + calculatePerformanceScore(a))

\* ------------------------------------------------------ registry state
\* No lookup is awaited.  A lookup's record keeps the agentId argument of
\* the assignTaskToAgent that runs it (given).
IdleScan ==
  [op |-> "none", pc |-> "idle", task |-> Null, available |-> << >>, idx |-> 0,
   pending |-> 0, best |-> Null, bestConf |-> 0, conf |-> 0, disturbed |-> FALSE,
   given |-> Undefined]

\* What a registry call that ended did: the error it threw or "ok", the agent
\* it returned (findBestAgentForTask) and the events it emitted.  A lookup's
\* record also keeps its task, and whether the registry and the agents stayed
\* as they were from its call to its return (clean).
Ended(op, outcome, result, events) ==
  [op |-> op, outcome |-> outcome, result |-> result, events |-> events,
   task |-> Null, clean |-> TRUE]

\* A lookup that is being awaited has seen the registry or an agent change.
Disturbed == IF scan.op = "none" THEN scan ELSE [scan EXCEPT !.disturbed = TRUE]

Remove(s, a) == SelectSeq(s, LAMBDA x : x # a)

EmptyMap == [x \in {} |-> Null]

\* No poll is awaiting; no poll has ended yet.
IdlePoll == [pc |-> "idle", sampled |-> {}, health |-> [a \in AgentIds |-> Null]]

NoPoll == [restarted |-> {}]

\* Texts are sequences of characters; undefined, where a text may stand, is
\* the sequence of one element that is no character.
NoText == <<Undefined>>

\* No WorktreeManager call has ended yet.
NoWt == [op |-> "none", id |-> NoText, outcome |-> "ok"]

\* ------------------------------------ the configuration, the process, idle
\* No file at the path of the configuration.
NoFile == [kind |-> "ENOENT"]

\* ConfigManager.config as constructed: null.
NoConfig == [kind |-> "null"]

\* No ConfigManager call has ended yet.
NoConfigCall == [op |-> "none", outcome |-> "ok", result |-> NoConfig]

\* The directory the process was started in.
ProcessDirectory == <<"/">>

\* The development agents of the process.
DevelopmentAgents == {<<"a", "1">>, <<"a", "2">>}

\* personalWorktree of an agent that was not initialized: null.
NoWorktrees == [a \in DevelopmentAgents |-> NoText]

\* No performTask is running.
IdleBody == [pc |-> "idle", type |-> NoText, changed |-> FALSE]

IdleBodies == [a \in DevelopmentAgents |-> IdleBody]

\* ------------------------------------------ AgentRegistry.registerAgent
\* A registerAgent that does not look at the capacity.
registerAgentUnlimited(a, config) ==
  /\ IF a \in Range(agents)
       THEN /\ lastOp' = Ended("registerAgent", "AlreadyRegistered", Null, << >>)
            /\ UNCHANGED <<agents, agentConfigs, scan>>
     ELSE IF validateAgentConfig(config) # "ok"
       THEN /\ lastOp' = Ended("registerAgent", validateAgentConfig(config), Null, << >>)
            /\ UNCHANGED <<agents, agentConfigs, scan>>
     ELSE /\ agents' = Append(agents, a)
          /\ agentConfigs' = [x \in DOMAIN agentConfigs \cup {a} |->
                                IF x = a THEN config ELSE agentConfigs[x]]
          /\ scan' = Disturbed
          /\ lastOp' = Ended("registerAgent", "ok", Null, <<"system:started", "agent:registered">>)
  /\ UNCHANGED <<assignmentHistory, agentStatus, agentMetrics, stopping>>
  /\ UNCHANGED outsideRegistry

registerAgent(a, config) ==
  /\ IF Len(agents) >= maxAgents
       THEN /\ lastOp' = Ended("registerAgent", "CapacityExceeded", Null, << >>)
            /\ UNCHANGED <<agents, agentConfigs, scan>>
     ELSE IF a \in Range(agents)
       THEN /\ lastOp' = Ended("registerAgent", "AlreadyRegistered", Null, << >>)
            /\ UNCHANGED <<agents, agentConfigs, scan>>
     ELSE IF validateAgentConfig(config) # "ok"
       THEN /\ lastOp' = Ended("registerAgent", validateAgentConfig(config), Null, << >>)
            /\ UNCHANGED <<agents, agentConfigs, scan>>
     ELSE /\ agents' = Append(agents, a)
          /\ agentConfigs' = [x \in DOMAIN agentConfigs \cup {a} |->
                                IF x = a THEN config ELSE agentConfigs[x]]
          /\ scan' = Disturbed
          /\ lastOp' = Ended("registerAgent", "ok", Null, <<"system:started", "agent:registered">>)
  /\ UNCHANGED <<assignmentHistory, agentStatus, agentMetrics, stopping>>
  /\ UNCHANGED outsideRegistry

\* ---------------------------------------- AgentRegistry.unregisterAgent
\* The removal that ends unregisterAgent.
Unregistered(a) ==
  /\ agents' = Remove(agents, a)
  /\ agentConfigs' = [x \in DOMAIN agentConfigs \ {a} |-> agentConfigs[x]]
  /\ scan' = Disturbed
  /\ lastOp' = Ended("unregisterAgent", "ok", Null, <<"system:stopped", "agent:unregistered">>)

\* unregisterAgent up to its await of agent.stop(), or to its end when the
\* agent is unknown or Inactive.  stop() sets Stopping before it first awaits.
unregisterAgent(a) ==
  /\ IF a \notin Range(agents)
       THEN /\ lastOp' = Ended("unregisterAgent", "NotFound", Null, << >>)
            /\ UNCHANGED <<agents, agentConfigs, agentStatus, stopping, scan>>
     ELSE IF agentStatus[a] # "inactive"
       THEN /\ stopping = {}
            /\ agentStatus' = [agentStatus EXCEPT ![a] = "stopping"]
            /\ stopping' = stopping \cup {[op |-> "unregisterAgent", awaiting |-> {a}]}
            /\ scan' = Disturbed
            /\ UNCHANGED <<agents, agentConfigs, lastOp>>
     ELSE /\ Unregistered(a)
          /\ UNCHANGED <<agentStatus, stopping>>
  /\ UNCHANGED <<assignmentHistory, agentMetrics>>
  /\ UNCHANGED outsideRegistry

\* The awaited stop() returned (the agent is Inactive) or threw (its cleanup
\* hook failed and the agent is left Stopping).
UnregisterResume(a, stopped) ==
  /\ [op |-> "unregisterAgent", awaiting |-> {a}] \in stopping
  /\ stopping' = stopping \ {[op |-> "unregisterAgent", awaiting |-> {a}]}
  /\ IF stopped
       THEN /\ agentStatus' = [agentStatus EXCEPT ![a] = "inactive"]
            /\ Unregistered(a)
       ELSE /\ lastOp' = Ended("unregisterAgent", "StopFailed", Null, << >>)
            /\ UNCHANGED <<agents, agentConfigs, agentStatus, scan>>
  /\ UNCHANGED <<assignmentHistory, agentMetrics>>
  /\ UNCHANGED outsideRegistry

\* ------------------------- AgentRegistry.cleanup and .stopAllAgents
\* cleanup up to its await of stopAllAgents: the timer healthCheckInterval
\* refers to is cleared (the field keeps its value), and stop() is called on
\* every registered agent that is not Inactive.
cleanup ==
  /\ stopping = {}
  /\ LET running == {a \in Range(agents) : agentStatus[a] # "inactive"}
     IN /\ agentStatus' = [a \in AgentIds |-> IF a \in running THEN "stopping" ELSE agentStatus[a]]
        /\ stopping' = stopping \cup {[op |-> "cleanup", awaiting |-> running]}
  /\ scan' = Disturbed
  /\ UNCHANGED <<agents, agentConfigs, assignmentHistory, agentMetrics, lastOp>>
  /\ registryTimers' = registryTimers \ registryHealthCheckInterval
  /\ UNCHANGED <<autoRestart, registryHealthCheckInterval, poll, restarting, uncaught, lastPoll>>
  /\ UNCHANGED <<agentVars, wtVars, gitVars, procVars>>

\* A cleanup that rethrows when a stop() failed, the registry left as it is.
CleanupResumeRethrows(awaiting, stopped) ==
  /\ [op |-> "cleanup", awaiting |-> awaiting] \in stopping
  /\ stopped \subseteq awaiting
  /\ stopping' = stopping \ {[op |-> "cleanup", awaiting |-> awaiting]}
  /\ agentStatus' = [a \in AgentIds |-> IF a \in stopped THEN "inactive" ELSE agentStatus[a]]
  /\ IF stopped = awaiting
       THEN /\ agents' = << >>
            /\ agentConfigs' = EmptyMap
            /\ assignmentHistory' = << >>
            /\ lastOp' = Ended("cleanup", "ok", Null, << >>)
       ELSE /\ lastOp' = Ended("cleanup", "StopFailed", Null, << >>)
            /\ UNCHANGED <<agents, agentConfigs, assignmentHistory>>
  /\ scan' = Disturbed
  /\ UNCHANGED agentMetrics
  /\ UNCHANGED outsideRegistry

\* Every stop() has settled; stopAllAgents swallows the failures, and cleanup
\* empties the registry.
CleanupResume(awaiting, stopped) ==
  /\ [op |-> "cleanup", awaiting |-> awaiting] \in stopping
  /\ stopped \subseteq awaiting
  /\ stopping' = stopping \ {[op |-> "cleanup", awaiting |-> awaiting]}
  /\ agentStatus' = [a \in AgentIds |-> IF a \in stopped THEN "inactive" ELSE agentStatus[a]]
  /\ agents' = << >>
  /\ agentConfigs' = EmptyMap
  /\ assignmentHistory' = << >>
  /\ scan' = Disturbed
  /\ lastOp' = Ended("cleanup", "ok", Null, << >>)
  /\ UNCHANGED agentMetrics
  /\ UNCHANGED outsideRegistry

\* ------------------------------------------------- the agents themselves
\* A registered agent changes its own status (BaseAgent.updateStatus).
AgentStatusChange(a, s) ==
  /\ a \in Range(agents)
  /\ agentStatus[a] # s
  /\ agentStatus' = [agentStatus EXCEPT ![a] = s]
  /\ scan' = Disturbed
  /\ UNCHANGED <<agents, agentConfigs, assignmentHistory, agentMetrics, stopping, lastOp>>
  /\ UNCHANGED outsideRegistry

\* ------------------ AgentRegistry.initialize and health supervision
\* The most initialize() calls followed.
MaxInitialize == 1

\* initialize(): startHealthMonitoring() schedules a timer and stores it in
\* healthCheckInterval, whatever that field held.  Timers are numbered in the
\* order they are scheduled; the field always holds the latest.
initialize ==
  /\ LET n == IF registryHealthCheckInterval = {} THEN 1
               ELSE 1 + CHOOSE x \in registryHealthCheckInterval : TRUE
     IN /\ n <= MaxInitialize
        /\ registryHealthCheckInterval' = {n}
        /\ registryTimers' = registryTimers \cup {n}
  /\ lastOp' = Ended("initialize", "ok", Null, <<"system:started">>)
  /\ UNCHANGED <<autoRestart, poll, restarting, uncaught, lastPoll>>
  /\ UNCHANGED <<agents, agentConfigs, assignmentHistory, agentStatus, agentMetrics, stopping, scan>>
  /\ UNCHANGED <<agentVars, wtVars, gitVars, procVars>>

\* A scheduled timer fires: getSystemHealth() calls getHealth() on every
\* registered agent and awaits them all.
PollBegin ==
  /\ registryTimers # {}
  /\ poll.pc = "idle"
  /\ poll' = [IdlePoll EXCEPT !.pc = "sampling", !.sampled = Range(agents)]
  /\ UNCHANGED <<autoRestart, registryHealthCheckInterval, registryTimers, restarting, uncaught, lastPoll>>
  /\ UNCHANGED <<regVars, agentVars, wtVars, gitVars, procVars>>

\* The getHealth() of agent a settles: the health record carries the agent's
\* status as it is now, or Error when the health could not be taken.
HealthSampled(a, failed) ==
  /\ poll.pc = "sampling"
  /\ a \in poll.sampled
  /\ poll.health[a] = Null
  /\ poll' = [poll EXCEPT !.health[a] = IF failed THEN "error" ELSE agentStatus[a]]
  /\ UNCHANGED <<autoRestart, registryHealthCheckInterval, registryTimers, restarting, uncaught, lastPoll>>
  /\ UNCHANGED <<regVars, agentVars, wtVars, gitVars, procVars>>

\* A poll that restarts the agents in Error whatever autoRestart says.
PollFinishAlwaysRestarts ==
  /\ poll.pc = "sampling"
  /\ \A a \in poll.sampled : poll.health[a] # Null
  /\ LET restarted == {a \in poll.sampled \cap Range(agents) : poll.health[a] = "error"}
     IN /\ agentStatus' = [a \in AgentIds |-> IF a \in restarted THEN "stopping" ELSE agentStatus[a]]
        /\ restarting' = restarting \cup restarted
        /\ lastPoll' = [restarted |-> restarted]
  /\ poll' = IdlePoll
  /\ scan' = Disturbed
  /\ UNCHANGED <<autoRestart, registryHealthCheckInterval, registryTimers, uncaught>>
  /\ UNCHANGED <<agents, agentConfigs, assignmentHistory, agentMetrics, stopping, lastOp>>
  /\ UNCHANGED <<agentVars, wtVars, gitVars, procVars>>

\* getSystemHealth() returned: handleUnhealthyAgent() runs for every health
\* record whose status is Error; it returns at once for an agent that is no
\* longer registered, and with autoRestart it calls restart(), which sets the
\* agent Stopping before it first awaits.
PollFinish ==
  /\ poll.pc = "sampling"
  /\ \A a \in poll.sampled : poll.health[a] # Null
  /\ LET unhealthy == {a \in poll.sampled \cap Range(agents) : poll.health[a] = "error"}
         restarted == IF autoRestart THEN unhealthy ELSE {}
     IN /\ agentStatus' = [a \in AgentIds |-> IF a \in restarted THEN "stopping" ELSE agentStatus[a]]
        /\ restarting' = restarting \cup restarted
        /\ lastPoll' = [restarted |-> restarted]
  /\ poll' = IdlePoll
  /\ scan' = Disturbed
  /\ UNCHANGED <<autoRestart, registryHealthCheckInterval, registryTimers, uncaught>>
  /\ UNCHANGED <<agents, agentConfigs, assignmentHistory, agentMetrics, stopping, lastOp>>
  /\ UNCHANGED <<agentVars, wtVars, gitVars, procVars>>

\* A failed restart() that is not caught: the rejection escapes.
RestartSettlesUncaught(a, outcome) ==
  /\ a \in restarting
  /\ restarting' = restarting \ {a}
  /\ agentStatus' = [agentStatus EXCEPT ![a] = outcome]
  /\ uncaught' = IF outcome = "active" THEN uncaught ELSE uncaught \cup {a}
  /\ scan' = Disturbed
  /\ UNCHANGED <<autoRestart, registryHealthCheckInterval, registryTimers, poll, lastPoll>>
  /\ UNCHANGED <<agents, agentConfigs, assignmentHistory, agentMetrics, stopping, lastOp>>
  /\ UNCHANGED <<agentVars, wtVars, gitVars, procVars>>

\* The restart() called by a poll settles: it returned (the agent is Active),
\* or it threw and handleUnhealthyAgent caught the error (stop() failed and
\* the agent is left Stopping, or start() failed and the agent is in Error).
RestartSettles(a, outcome) ==
  /\ a \in restarting
  /\ restarting' = restarting \ {a}
  /\ agentStatus' = [agentStatus EXCEPT ![a] = outcome]
  /\ scan' = Disturbed
  /\ UNCHANGED <<autoRestart, registryHealthCheckInterval, registryTimers, poll, uncaught, lastPoll>>
  /\ UNCHANGED <<agents, agentConfigs, assignmentHistory, agentMetrics, stopping, lastOp>>
  /\ UNCHANGED <<agentVars, wtVars, gitVars, procVars>>

RestartOutcomes == {"active", "stopping", "error"}

\* ---------------------------------- AgentRegistry.findBestAgentForTask
\* The agents findBestAgentForTask keeps: getAllAgents() in Map order,
\* filtered by status and canAgentHandleTask.
AvailableAgents(t) ==
  SelectSeq(agents, LAMBDA a : agentStatus[a] = "active" /\ canAgentHandleTask[a, t])

\* The lookup from its call to its first await: the filter, and the first
\* calculateAgentTaskMatch, which runs before the await gives control away.
LookupBegun(op, t) ==
  [IdleScan EXCEPT !.op = op, !.pc = "scoring", !.task = t,
                   !.available = AvailableAgents(t), !.idx = 1,
                   !.pending = calculateAgentTaskMatch(AvailableAgents(t)[1], t)]

BeginLookup(op, t) == scan' = LookupBegun(op, t)

findBestAgentForTask(t) ==
  /\ scan.op = "none"
  /\ IF AvailableAgents(t) = << >>
       THEN /\ lastOp' = [Ended("findBestAgentForTask", "ok", Null, << >>) EXCEPT !.task = t]
            /\ UNCHANGED scan
       ELSE /\ BeginLookup("findBestAgentForTask", t)
            /\ UNCHANGED lastOp
  /\ UNCHANGED <<agents, agentConfigs, assignmentHistory, agentStatus, agentMetrics, stopping>>
  /\ UNCHANGED outsideRegistry

\* A loop that also keeps a match that only equals the best so far.
ScoreResumeKeepsLatest ==
  /\ scan.pc = "scoring"
  /\ LET better == scan.best = Null \/ scan.pending >= scan.bestConf
         best == IF better THEN scan.available[scan.idx] ELSE scan.best
         bestConf == IF better THEN scan.pending ELSE scan.bestConf
     IN IF scan.idx < Len(scan.available)
          THEN /\ scan' = [scan EXCEPT !.best = best, !.bestConf = bestConf, !.idx = scan.idx + 1,
                             !.pending = calculateAgentTaskMatch(scan.available[scan.idx + 1], scan.task)]
               /\ UNCHANGED lastOp
        ELSE IF scan.op = "findBestAgentForTask"
          THEN /\ scan' = IdleScan
               /\ lastOp' = [Ended("findBestAgentForTask", "ok", best, << >>)
                               EXCEPT !.task = scan.task, !.clean = ~scan.disturbed]
        ELSE /\ scan' = [scan EXCEPT !.best = best, !.bestConf = bestConf, !.pc = "matched"]
             /\ UNCHANGED lastOp
  /\ UNCHANGED <<agents, agentConfigs, assignmentHistory, agentStatus, agentMetrics, stopping>>
  /\ UNCHANGED outsideRegistry

\* The loop resumes with the awaited match: keep it if it beats the best so
\* far, then score the next agent or return.
ScoreResume ==
  /\ scan.pc = "scoring"
  /\ LET better == scan.best = Null \/ scan.pending > scan.bestConf
         best == IF better THEN scan.available[scan.idx] ELSE scan.best
         bestConf == IF better THEN scan.pending ELSE scan.bestConf
     IN IF scan.idx < Len(scan.available)
          THEN /\ scan' = [scan EXCEPT !.best = best, !.bestConf = bestConf, !.idx = scan.idx + 1,
                             !.pending = calculateAgentTaskMatch(scan.available[scan.idx + 1], scan.task)]
               /\ UNCHANGED lastOp
        ELSE IF scan.op = "findBestAgentForTask"
          THEN /\ scan' = IdleScan
               /\ lastOp' = [Ended("findBestAgentForTask", "ok", best, << >>)
                               EXCEPT !.task = scan.task, !.clean = ~scan.disturbed]
        ELSE /\ scan' = [scan EXCEPT !.best = best, !.bestConf = bestConf, !.pc = "matched"]
             /\ UNCHANGED lastOp
  /\ UNCHANGED <<agents, agentConfigs, assignmentHistory, agentStatus, agentMetrics, stopping>>
  /\ UNCHANGED outsideRegistry

\* ------------------------------------- AgentRegistry.assignTaskToAgent
\* A registry that puts the new assignment in front of the earlier ones.
AssignedFirst(t, a, confidence) ==
  /\ assignmentHistory' =
       <<[taskId |-> t, agentId |-> a, confidence |-> confidence]>> \o assignmentHistory
  /\ lastOp' = Ended("assignTaskToAgent", "ok", a, <<"task:assigned">>)

\* The assignment is stored and announced.
Assigned(t, a, confidence) ==
  /\ assignmentHistory' =
       Append(assignmentHistory, [taskId |-> t, agentId |-> a, confidence |-> confidence])
  /\ lastOp' = Ended("assignTaskToAgent", "ok", a, <<"task:assigned">>)

\* An assignTaskToAgent that does not look at the status of the agent it is given.
assignTaskToAgentAnyStatus(t, agentId) ==
  /\ scan.op = "none"
  /\ Len(assignmentHistory) < MaxAssignments
  /\ IF agentId \notin {Undefined, ""}
       THEN /\ IF agentId \notin Range(agents)
                 THEN /\ lastOp' = Ended("assignTaskToAgent", "NotFound", Null, << >>)
                      /\ UNCHANGED assignmentHistory
               ELSE Assigned(t, agentId, 10000)
            /\ UNCHANGED scan
     ELSE IF AvailableAgents(t) = << >>
       THEN /\ lastOp' = Ended("assignTaskToAgent", "NoSuitableAgent", Null, << >>)
            /\ UNCHANGED <<assignmentHistory, scan>>
     ELSE /\ scan' = [LookupBegun("assignTaskToAgent", t) EXCEPT !.given = agentId]
          /\ UNCHANGED <<assignmentHistory, lastOp>>
  /\ UNCHANGED <<agents, agentConfigs, agentStatus, agentMetrics, stopping>>
  /\ UNCHANGED outsideRegistry

\* assignTaskToAgent up to its first await, or to its end.  `if (agentId)`
\* takes the first branch for every non-empty string.
assignTaskToAgent(t, agentId) ==
  /\ scan.op = "none"
  /\ Len(assignmentHistory) < MaxAssignments
  /\ IF agentId \notin {Undefined, ""}
       THEN /\ IF agentId \notin Range(agents)
                 THEN /\ lastOp' = Ended("assignTaskToAgent", "NotFound", Null, << >>)
                      /\ UNCHANGED assignmentHistory
               ELSE IF agentStatus[agentId] # "active"
                 THEN /\ lastOp' = Ended("assignTaskToAgent", "NotActive", Null, << >>)
                      /\ UNCHANGED assignmentHistory
               ELSE Assigned(t, agentId, 10000)
            /\ UNCHANGED scan
     ELSE IF AvailableAgents(t) = << >>
       THEN /\ lastOp' = Ended("assignTaskToAgent", "NoSuitableAgent", Null, << >>)
            /\ UNCHANGED <<assignmentHistory, scan>>
     ELSE /\ scan' = [LookupBegun("assignTaskToAgent", t) EXCEPT !.given = agentId]
          /\ UNCHANGED <<assignmentHistory, lastOp>>
  /\ UNCHANGED <<agents, agentConfigs, agentStatus, agentMetrics, stopping>>
  /\ UNCHANGED outsideRegistry

\* assignTaskToAgent resumes with the match and calls
\* calculateAssignmentConfidence, which scores the agent again.
AssignResume ==
  /\ scan.pc = "matched"
  /\ scan' = [scan EXCEPT !.pc = "confidence",
                          !.conf = calculateAgentTaskMatch(scan.best, scan.task)]
  /\ UNCHANGED <<agents, agentConfigs, assignmentHistory, agentStatus, agentMetrics, stopping, lastOp>>
  /\ UNCHANGED outsideRegistry

AssignFinish ==
  /\ scan.pc = "confidence"
  /\ Assigned(scan.task, scan.best, scan.conf)
  /\ scan' = IdleScan
  /\ UNCHANGED <<agents, agentConfigs, agentStatus, agentMetrics, stopping>>
  /\ UNCHANGED outsideRegistry

\* --------------------------------------------------- the registry alone
\* The registry as constructed, with agents as constructed.
RegistryInit ==
  /\ status = "inactive" /\ healthCheckInterval = {} /\ timers = {}
  /\ currentTask = Null
  /\ metrics = [tasksCompleted |-> 0, successNum |-> 0, successDen |-> 1]
  /\ calls = [c \in CallIds |-> IdleCall]
  /\ microQ = << >>
  /\ agents = << >>
  /\ agentConfigs = EmptyMap
  /\ agentStatus = [a \in AgentIds |-> "inactive"]
  /\ agentMetrics = [a \in AgentIds |-> FreshMetrics]
  /\ stopping = {}
  /\ scan = IdleScan
  /\ lastOp = Ended("none", "ok", Null, << >>)
  /\ autoRestart = TRUE
  /\ registryHealthCheckInterval = {} /\ registryTimers = {}
  /\ poll = IdlePoll /\ restarting = {} /\ uncaught = {}
  /\ lastPoll = NoPoll
  /\ worktrees = << >> /\ dirs = << >> /\ now = 0
  /\ lastWt = NoWt
  /\ managerConfig = NoConfig /\ configFile = NoFile /\ lastConfig = NoConfigCall
  /\ cwd = ProcessDirectory /\ personalWorktree = NoWorktrees /\ bodies = IdleBodies
  /\ strategies = DefaultStrategies /\ run = IdleRun /\ written = << >>
  /\ source = NoSource /\ parsed = NoConflict
  /\ eventHistory = << >> /\ emitted = 0
  /\ assignmentHistory = << >>

\* The assignment history at the start: empty, or holding an earlier
\* assignment (to an agent unregistered since).
HistoryInputs == {<< >>, <<[taskId |-> "t1", agentId |-> "a1", confidence |-> 10000]>>}

\* The registry as constructed but for its assignment history.
RegistrationInit ==
  /\ status = "inactive" /\ healthCheckInterval = {} /\ timers = {}
  /\ currentTask = Null
  /\ metrics = [tasksCompleted |-> 0, successNum |-> 0, successDen |-> 1]
  /\ calls = [c \in CallIds |-> IdleCall]
  /\ microQ = << >>
  /\ agents = << >>
  /\ agentConfigs = EmptyMap
  /\ agentStatus = [a \in AgentIds |-> "inactive"]
  /\ agentMetrics = [a \in AgentIds |-> FreshMetrics]
  /\ stopping = {}
  /\ scan = IdleScan
  /\ lastOp = Ended("none", "ok", Null, << >>)
  /\ autoRestart = TRUE
  /\ registryHealthCheckInterval = {} /\ registryTimers = {}
  /\ poll = IdlePoll /\ restarting = {} /\ uncaught = {}
  /\ lastPoll = NoPoll
  /\ worktrees = << >> /\ dirs = << >> /\ now = 0
  /\ lastWt = NoWt
  /\ managerConfig = NoConfig /\ configFile = NoFile /\ lastConfig = NoConfigCall
  /\ cwd = ProcessDirectory /\ personalWorktree = NoWorktrees /\ bodies = IdleBodies
  /\ strategies = DefaultStrategies /\ run = IdleRun /\ written = << >>
  /\ source = NoSource /\ parsed = NoConflict
  /\ eventHistory = << >> /\ emitted = 0
  /\ assignmentHistory \in HistoryInputs

\* Registration, removal and cleanup, with agents that start, work and stop.
RegistryNext ==
  \/ \E a \in AgentIds : \E config \in ConfigInputs(a) : registerAgent(a, config)
  \/ \E a \in AgentIds : unregisterAgent(a)
  \/ \E a \in AgentIds, stopped \in BOOLEAN : UnregisterResume(a, stopped)
  \/ cleanup
  \/ \E awaiting \in SUBSET AgentIds : \E stopped \in SUBSET awaiting : CleanupResume(awaiting, stopped)
  \/ \E a \in AgentIds, s \in AgentStatus : AgentStatusChange(a, s)

SpecRegistry == RegistrationInit /\ [][RegistryNext]_vars

\* Lookup, with agents that start, work and stop.
LookupNext ==
  \/ \E a \in AgentIds : registerAgent(a, ConfigOf(a))
  \/ \E a \in AgentIds, s \in AgentStatus : AgentStatusChange(a, s)
  \/ \E t \in Tasks : findBestAgentForTask(t)
  \/ ScoreResume

SpecLookup == RegistryInit /\ [][LookupNext]_vars

\* Assignment, with agents that start, work and stop.  The agents are the
\* backend and the qa agent; the tasks are the feature no agent can take and
\* the bug fix (every agent can take it, qa has the role bonus).
AssignAgents == {"a2", "a3"}

AssignTasks == {"t3", "t4"}

\* The statuses the agents take: Active, Busy, and one that is neither.
AssignStatus == {"active", "busy", "inactive"}

AssignNext ==
  \/ \E a \in AssignAgents : registerAgent(a, ConfigOf(a))
  \/ \E a \in AssignAgents, s \in AssignStatus : AgentStatusChange(a, s)
  \/ \E t \in AssignTasks, agentId \in AgentIdInputs : assignTaskToAgent(t, agentId)
  \/ ScoreResume
  \/ AssignResume
  \/ AssignFinish

SpecAssign == RegistryInit /\ [][AssignNext]_vars

\* Scoring, in a registry of the default capacity (maxAgents 10) in which
\* the frontend, the backend and the qa agent were registered, in any order,
\* and started; each agent has run no task yet or has run tasks that all
\* succeeded.  The agents then go Busy and Active again.
ScoringOrders ==
  {o \in [1..3 -> AgentIds] : \A i, j \in 1..3 : i # j => o[i] # o[j]}

ScoringStatus == {"active", "busy"}

ScoringInit ==
  /\ status = "inactive" /\ healthCheckInterval = {} /\ timers = {}
  /\ currentTask = Null
  /\ metrics = [tasksCompleted |-> 0, successNum |-> 0, successDen |-> 1]
  /\ calls = [c \in CallIds |-> IdleCall]
  /\ microQ = << >>
  /\ agents \in ScoringOrders
  /\ agentConfigs = [a \in AgentIds |-> ConfigOf(a)]
  /\ agentStatus = [a \in AgentIds |-> "active"]
  /\ agentMetrics \in [AgentIds -> {FreshMetrics, ProvenMetrics}]
  /\ stopping = {}
  /\ scan = IdleScan
  /\ lastOp = Ended("none", "ok", Null, << >>)
  /\ autoRestart = TRUE
  /\ registryHealthCheckInterval = {} /\ registryTimers = {}
  /\ poll = IdlePoll /\ restarting = {} /\ uncaught = {}
  /\ lastPoll = NoPoll
  /\ worktrees = << >> /\ dirs = << >> /\ now = 0
  /\ lastWt = NoWt
  /\ managerConfig = NoConfig /\ configFile = NoFile /\ lastConfig = NoConfigCall
  /\ cwd = ProcessDirectory /\ personalWorktree = NoWorktrees /\ bodies = IdleBodies
  /\ strategies = DefaultStrategies /\ run = IdleRun /\ written = << >>
  /\ source = NoSource /\ parsed = NoConflict
  /\ eventHistory = << >> /\ emitted = 0
  /\ assignmentHistory = << >>

ScoringNext ==
  \/ \E a \in AgentIds, s \in ScoringStatus : AgentStatusChange(a, s)
  \/ \E t \in Tasks : findBestAgentForTask(t)
  \/ ScoreResume

SpecScoring == ScoringInit /\ [][ScoringNext]_vars

\* ====================================================== WorktreeManager
\* ---------------------------------------------------------------- bounds
\* The clock advances in ticks of TickMs milliseconds, MaxTicks times.
MaxTicks == 2

TickMs == 24 * 60 * 60 * 1000

\* cleanupStaleWorktrees: staleThreshold
staleThreshold == 24 * 60 * 60 * 1000

\* ------------------------------------------------------- text functions
RECURSIVE Concat(_)
Concat(parts) == IF parts = << >> THEN << >> ELSE Head(parts) \o Concat(Tail(parts))

\* String.prototype.split(sep), sep one character.
Split(s, sep) ==
  LET at == {i \in 1..Len(s) : s[i] = sep}
      cut == [k \in 0..(Cardinality(at) + 1) |->
                IF k = 0 THEN 0
                ELSE IF k = Cardinality(at) + 1 THEN Len(s) + 1
                ELSE CHOOSE i \in at : Cardinality({j \in at : j < i}) = k - 1]
  IN [k \in 1..(Cardinality(at) + 1) |-> SubSeq(s, cut[k - 1] + 1, cut[k] - 1)]

\* Array.prototype.join(sep)
RECURSIVE JoinWith(_, _)
JoinWith(parts, sep) ==
  IF parts = << >> THEN << >>
  ELSE IF Len(parts) = 1 THEN parts[1]
  ELSE parts[1] \o <<sep>> \o JoinWith(Tail(parts), sep)

\* String.prototype.startsWith and .substring(n)
StartsWith(s, prefix) == Len(s) >= Len(prefix) /\ SubSeq(s, 1, Len(prefix)) = prefix

Substring(s, n) == SubSeq(s, n + 1, Len(s))

\* Number to its decimal text (template literal).
Digit == <<"0", "1", "2", "3", "4", "5", "6", "7", "8", "9">>

RECURSIVE ToText(_)
ToText(n) == IF n < 10 THEN <<Digit[n + 1]>> ELSE Append(ToText(n \div 10), Digit[(n % 10) + 1])

\* path.normalize (posix): "." and empty segments dropped, ".." resolved, the
\* leading and the trailing separator kept.
RECURSIVE normalizeSegments(_, _, _)
normalizeSegments(segs, absolute, kept) ==
  IF segs = << >> THEN kept
  ELSE IF Head(segs) = << >> \/ Head(segs) = <<".">>
    THEN normalizeSegments(Tail(segs), absolute, kept)
  ELSE IF Head(segs) = <<".", ".">>
    THEN IF kept # << >> /\ kept[Len(kept)] # <<".", ".">>
           THEN normalizeSegments(Tail(segs), absolute, SubSeq(kept, 1, Len(kept) - 1))
         ELSE IF absolute THEN normalizeSegments(Tail(segs), absolute, kept)
         ELSE normalizeSegments(Tail(segs), absolute, Append(kept, Head(segs)))
  ELSE normalizeSegments(Tail(segs), absolute, Append(kept, Head(segs)))

normalize(p) ==
  LET absolute == p # << >> /\ p[1] = "/"
      trailing == p # << >> /\ p[Len(p)] = "/"
      body == JoinWith(normalizeSegments(Split(p, "/"), absolute, << >>), "/")
  IN IF p = << >> THEN <<".">>
     ELSE IF body = << >> THEN (IF absolute THEN <<"/">> ELSE IF trailing THEN <<".", "/">> ELSE <<".">>)
     ELSE (IF absolute THEN <<"/">> ELSE << >>) \o body \o (IF trailing THEN <<"/">> ELSE << >>)

\* path.join of two segments
join(a, b) ==
  IF a = << >> THEN normalize(b)
  ELSE IF b = << >> THEN normalize(a)
  ELSE normalize(a \o <<"/">> \o b)

\* ---------------------------------------------------------------- inputs
\* WorktreeManager.baseWorkingDirectory
baseWorkingDirectory == <<"/", "w">>

AgentPrefix == <<"a", "g", "e", "n", "t", "-">>

\* The agent ids worktrees are asked for: two plain ids, and one with a "."
\* path segment.
WorktreeIds == {<<"a", "1">>, <<"a", "2">>, <<"a", "1", "/", ".">>}

\* The branchName argument of createWorktreeForAgent: a branch, or none.

BranchInputs == {<<"b", "1">>, NoText}

\* A detached HEAD, where a branch may stand.
Detached == <<"detached HEAD">>

\* The linked worktrees a prior process left on disk, in the order git lists
\* them: none; the worktree of a1 on branch b1; the worktree of a1 with a
\* detached HEAD, followed by a worktree that is no agent's, on branch b2.
DiskInputs ==
  {<< >>,
   <<[path |-> <<"/", "w", "/", "w", "o", "r", "k", "t", "r", "e", "e", "s", "/", "a", "g", "e", "n", "t", "-", "a", "1">>, head |-> <<"b", "1">>]>>,
   <<[path |-> <<"/", "w", "/", "w", "o", "r", "k", "t", "r", "e", "e", "s", "/", "a", "g", "e", "n", "t", "-", "a", "1">>, head |-> Detached], [path |-> <<"/", "w", "/", "x">>, head |-> <<"b", "2">>]>>}

\* WorktreeManager.generateWorktreePath
worktreePathOf ==
  [agentId \in WorktreeIds |->
     join(join(baseWorkingDirectory, <<"w", "o", "r", "k", "t", "r", "e", "e", "s">>), AgentPrefix \o agentId)]

generateWorktreePath(agentId) == worktreePathOf[agentId]

\* The output of git worktree list --porcelain: the main worktree, then the
\* linked ones.
PorcelainEntry(e) ==
  Concat(<<<<"w", "o", "r", "k", "t", "r", "e", "e", " ">>, e.path, <<"\n">>, <<"H", "E", "A", "D", " ", "0", "\n">>,
           IF e.head = Detached THEN <<"d", "e", "t", "a", "c", "h", "e", "d">>
           ELSE <<"b", "r", "a", "n", "c", "h", " ">> \o <<"r", "e", "f", "s", "/", "h", "e", "a", "d", "s", "/">> \o e.head,
           <<"\n">>, <<"\n">>>>)

RECURSIVE PorcelainEntries(_)
PorcelainEntries(disk) ==
  IF disk = << >> THEN << >> ELSE PorcelainEntry(Head(disk)) \o PorcelainEntries(Tail(disk))

Porcelain(disk) ==
  PorcelainEntry([path |-> baseWorkingDirectory, head |-> <<"m", "a", "i", "n">>])
    \o PorcelainEntries(disk)

\* -------------------------------------------------- Map<string, WorktreeInfo>
\* The map as the sequence of its values, in insertion order.
Ids(m) == {m[i].id : i \in 1..Len(m)}

Get(m, id) == m[CHOOSE i \in 1..Len(m) : m[i].id = id]

\* A Map.set that adds an entry whether the key is present or not.
PutAppends(m, rec) == Append(m, rec)

\* Map.set: a present key keeps its place.
Put(m, rec) ==
  IF rec.id \in Ids(m) THEN [i \in 1..Len(m) |-> IF m[i].id = rec.id THEN rec ELSE m[i]]
  ELSE Append(m, rec)

Delete(m, id) == SelectSeq(m, LAMBDA r : r.id # id)

Paths(disk) == {disk[i].path : i \in 1..Len(disk)}

Heads(disk) == {disk[i].head : i \in 1..Len(disk)}

WithoutPath(disk, p) == SelectSeq(disk, LAMBDA e : e.path # p)

\* What a WorktreeManager call that ended did.
WtEnded(op, id, outcome) == [op |-> op, id |-> id, outcome |-> outcome]

\* --------------------------------- WorktreeManager.removeWorktreeDirectory
\* git worktree remove --force works (gitOk) only on a worktree git knows;
\* when it fails and the directory exists, fs.promises.rm deletes it or
\* throws.  The result: the disk after it, and whether success is reported.
removeWorktreeDirectory(disk, p, gitOk, rmOk) ==
  IF p \in Paths(disk) /\ gitOk THEN [disk |-> WithoutPath(disk, p), success |-> TRUE]
  ELSE IF p \notin Paths(disk) THEN [disk |-> disk, success |-> TRUE]
  ELSE IF rmOk THEN [disk |-> WithoutPath(disk, p), success |-> TRUE]
  ELSE [disk |-> disk, success |-> FALSE]

\* ------------------------------------------------ the worktree records
\* Date.now() as text, at each tick of the clock.
DateNow == [t \in 0..(MaxTicks + 1) |-> ToText(t * TickMs)]

\* Date difference in milliseconds, the clock counting ticks.
Stale(rec, at) == (at - rec.lastActivity) * TickMs > staleThreshold

WorktreeInfo(agentId, p, branch) ==
  [id |-> agentId, path |-> p, branch |-> branch, status |-> "active", lastActivity |-> now]

\* ----------------------------------- WorktreeManager.createWorktreeForAgent
\* The call from its start to its end.  gitOk and rmOk say how the removal of
\* a directory found at the path goes, branchOk whether ensureBranchExists
\* returns, addOk whether git worktree add works where nothing of the
\* repository stands in its way (the path is free, the branch is checked out
\* nowhere).
createWorktreeForAgent(agentId, branchName, gitOk, rmOk, branchOk, addOk) ==
  LET finalBranchName ==
        IF branchName = NoText
          THEN Concat(<<AgentPrefix, agentId, <<"-">>, DateNow[now]>>)
          ELSE branchName
      worktreePath == generateWorktreePath(agentId)
      disk == IF worktreePath \in Paths(dirs)
                THEN removeWorktreeDirectory(dirs, worktreePath, gitOk, rmOk).disk
                ELSE dirs
      failure == IF ~branchOk THEN "BranchFailed"
                 ELSE IF worktreePath \in Paths(disk) THEN "AlreadyExists"
                 ELSE IF finalBranchName \in Heads(disk) \cup {<<"m", "a", "i", "n">>} THEN "BranchInUse"
                 ELSE IF ~addOk THEN "AddFailed"
                 ELSE "ok"
  IN IF failure # "ok"
       THEN /\ dirs' = disk
            /\ lastWt' = WtEnded("createWorktreeForAgent", agentId, failure)
            /\ UNCHANGED worktrees
       ELSE /\ dirs' = Append(disk, [path |-> worktreePath, head |-> finalBranchName])
            /\ worktrees' = Put(worktrees, WorktreeInfo(agentId, worktreePath, finalBranchName))
            /\ lastWt' = WtEnded("createWorktreeForAgent", agentId, "ok")

\* ----------------------------------- WorktreeManager.removeWorktreeForAgent
\* A removeWorktreeForAgent that unregisters whatever the removal reports.
removeWorktreeForAgentAnyResult(agentId, gitOk, rmOk) ==
  IF agentId \notin Ids(worktrees)
    THEN /\ lastWt' = WtEnded("removeWorktreeForAgent", agentId, "NotFound")
         /\ UNCHANGED <<worktrees, dirs>>
  ELSE LET result == removeWorktreeDirectory(dirs, Get(worktrees, agentId).path, gitOk, rmOk)
       IN /\ dirs' = result.disk
          /\ worktrees' = Delete(worktrees, agentId)
          /\ lastWt' = WtEnded("removeWorktreeForAgent", agentId,
                               IF result.success THEN "ok" ELSE "RemoveFailed")

\* The call from its start to its end: the result it returns (it never throws).
removeWorktreeForAgent(agentId, gitOk, rmOk) ==
  IF agentId \notin Ids(worktrees)
    THEN /\ lastWt' = WtEnded("removeWorktreeForAgent", agentId, "NotFound")
         /\ UNCHANGED <<worktrees, dirs>>
  ELSE LET result == removeWorktreeDirectory(dirs, Get(worktrees, agentId).path, gitOk, rmOk)
       IN /\ dirs' = result.disk
          /\ worktrees' = IF result.success THEN Delete(worktrees, agentId) ELSE worktrees
          /\ lastWt' = WtEnded("removeWorktreeForAgent", agentId,
                               IF result.success THEN "ok" ELSE "RemoveFailed")

\* ------------------------------ WorktreeManager.discoverExistingWorktrees
\* The loop over the lines: current is currentWorktree ({} is a record
\* without id), m the map so far.
NoWorktree == [id |-> NoText, path |-> NoText, branch |-> NoText]

RECURSIVE discoverLines(_, _, _)
discoverLines(lines, current, m) ==
  IF lines = << >> THEN m
  ELSE LET line == Head(lines)
       IN IF StartsWith(line, <<"w", "o", "r", "k", "t", "r", "e", "e", " ">>)
            THEN LET worktreePath == Substring(line, 9)
                     pathParts == Split(worktreePath, "/")
                     dirName == pathParts[Len(pathParts)]
                 IN IF StartsWith(dirName, AgentPrefix)
                      THEN discoverLines(Tail(lines),
                                         [id |-> Substring(dirName, 6), path |-> worktreePath,
                                          branch |-> NoText], m)
                      ELSE discoverLines(Tail(lines), current, m)
          ELSE IF StartsWith(line, <<"b", "r", "a", "n", "c", "h", " ">>) /\ current.id \notin {NoText, << >>}
            THEN LET branch == Substring(line, 7)
                 IN IF current.path \notin {NoText, << >>} /\ branch # << >>
                      THEN discoverLines(Tail(lines), NoWorktree,
                                         Put(m, WorktreeInfo(current.id, current.path, branch)))
                      ELSE discoverLines(Tail(lines), NoWorktree, m)
          ELSE discoverLines(Tail(lines), current, m)

\* The call from its start to its end; when git fails (listOk is false) the
\* error is swallowed: the call returns as ever, having logged the failure.
discoverExistingWorktrees(listOk) ==
  /\ worktrees' = IF listOk
                    THEN discoverLines(Split(Porcelain(dirs), "\n"), NoWorktree, worktrees)
                    ELSE worktrees
  /\ lastWt' = WtEnded("discoverExistingWorktrees", NoText,
                       IF listOk THEN "ok" ELSE "ListFailed")
  /\ UNCHANGED dirs

\* ---------------------------------- WorktreeManager.cleanupStaleWorktrees
\* The loop over the map's entries: removeWorktreeForAgent on every stale
\* one; its result is not looked at, and as it never throws the catch block
\* never runs.  The result: the map and the disk after the loop.
RECURSIVE sweep(_, _, _, _, _)
sweep(todo, m, disk, gitFails, rmFails) ==
  IF todo = << >> THEN [worktrees |-> m, disk |-> disk]
  ELSE LET worktree == Head(todo)
       IN IF Stale(worktree, now) /\ worktree.id \in Ids(m)
            THEN LET result == removeWorktreeDirectory(disk, worktree.path,
                                                      worktree.id \notin gitFails,
                                                      worktree.id \notin rmFails)
                 IN sweep(Tail(todo),
                          IF result.success THEN Delete(m, worktree.id) ELSE m,
                          result.disk, gitFails, rmFails)
            ELSE sweep(Tail(todo), m, disk, gitFails, rmFails)

\* The call from its start to its end.  gitFails and rmFails are the ids for
\* whose path git worktree remove, and fs.promises.rm, fail.
cleanupStaleWorktrees(gitFails, rmFails) ==
  LET after == sweep(worktrees, worktrees, dirs, gitFails, rmFails)
  IN /\ worktrees' = after.worktrees
     /\ dirs' = after.disk
     /\ lastWt' = WtEnded("cleanupStaleWorktrees", NoText, "ok")

\* Time passes.
Tick == now < MaxTicks /\ now' = now + 1 /\ UNCHANGED <<worktrees, dirs, lastWt>>

\* --------------------------------------------- the worktree manager alone
\* The manager as constructed, in a repository without linked worktrees; the
\* registry and the agents as constructed.
WorktreeInit ==
  /\ status = "inactive" /\ healthCheckInterval = {} /\ timers = {}
  /\ currentTask = Null
  /\ metrics = [tasksCompleted |-> 0, successNum |-> 0, successDen |-> 1]
  /\ calls = [c \in CallIds |-> IdleCall]
  /\ microQ = << >>
  /\ agents = << >>
  /\ agentConfigs = EmptyMap
  /\ agentStatus = [a \in AgentIds |-> "inactive"]
  /\ agentMetrics = [a \in AgentIds |-> FreshMetrics]
  /\ stopping = {}
  /\ scan = IdleScan
  /\ lastOp = Ended("none", "ok", Null, << >>)
  /\ assignmentHistory = << >>
  /\ autoRestart = TRUE
  /\ registryHealthCheckInterval = {} /\ registryTimers = {}
  /\ poll = IdlePoll /\ restarting = {} /\ uncaught = {}
  /\ lastPoll = NoPoll
  /\ worktrees = << >> /\ dirs = << >> /\ now = 0
  /\ lastWt = NoWt
  /\ managerConfig = NoConfig /\ configFile = NoFile /\ lastConfig = NoConfigCall
  /\ cwd = ProcessDirectory /\ personalWorktree = NoWorktrees /\ bodies = IdleBodies
  /\ strategies = DefaultStrategies /\ run = IdleRun /\ written = << >>
  /\ source = NoSource /\ parsed = NoConflict
  /\ eventHistory = << >> /\ emitted = 0

outsideWorktrees == <<agentVars, regVars, supVars, gitVars, procVars>>

\* How the removal of the directory at path p may go: one pair (gitOk, rmOk)
\* for each course it can take (rm is not tried where git works, neither is
\* consulted where nothing stands at p).
RemovalInputs(p) ==
  IF p \in Paths(dirs) THEN {<<TRUE, TRUE>>, <<FALSE, TRUE>>, <<FALSE, FALSE>>}
  ELSE {<<TRUE, TRUE>>}

\* How ensureBranchExists and git worktree add may go: (branchOk, addOk);
\* add is not reached where the branch fails.
AddInputs == {<<TRUE, TRUE>>, <<TRUE, FALSE>>, <<FALSE, TRUE>>}

CreateWorktree ==
  /\ \E agentId \in WorktreeIds, branchName \in BranchInputs :
       \E removal \in RemovalInputs(generateWorktreePath(agentId)), add \in AddInputs :
         createWorktreeForAgent(agentId, branchName, removal[1], removal[2], add[1], add[2])
  /\ UNCHANGED <<now, outsideWorktrees>>

RemoveWorktree ==
  /\ \E agentId \in WorktreeIds :
       \E removal \in IF agentId \in Ids(worktrees)
                        THEN RemovalInputs(Get(worktrees, agentId).path)
                        ELSE {<<TRUE, TRUE>>} :
         removeWorktreeForAgent(agentId, removal[1], removal[2])
  /\ UNCHANGED <<now, outsideWorktrees>>

DiscoverWorktrees ==
  /\ \E listOk \in BOOLEAN : discoverExistingWorktrees(listOk)
  /\ UNCHANGED <<now, outsideWorktrees>>

CleanupStale ==
  /\ \E gitFails \in SUBSET {id \in Ids(worktrees) : Stale(Get(worktrees, id), now)} :
       \E rmFails \in SUBSET gitFails :
       cleanupStaleWorktrees(gitFails, rmFails)
  /\ UNCHANGED <<now, outsideWorktrees>>

TimePasses == Tick /\ UNCHANGED outsideWorktrees

WorktreeNext ==
  \/ CreateWorktree
  \/ RemoveWorktree
  \/ CleanupStale
  \/ TimePasses

SpecWorktree == WorktreeInit /\ [][WorktreeNext]_vars

\* ------------------------------------- the manager over a disk it finds
\* The manager as constructed, over the linked worktrees a prior process
\* left; the registry and the agents as constructed.
DiscoveryInit ==
  /\ status = "inactive" /\ healthCheckInterval = {} /\ timers = {}
  /\ currentTask = Null
  /\ metrics = [tasksCompleted |-> 0, successNum |-> 0, successDen |-> 1]
  /\ calls = [c \in CallIds |-> IdleCall]
  /\ microQ = << >>
  /\ agents = << >>
  /\ agentConfigs = EmptyMap
  /\ agentStatus = [a \in AgentIds |-> "inactive"]
  /\ agentMetrics = [a \in AgentIds |-> FreshMetrics]
  /\ stopping = {}
  /\ scan = IdleScan
  /\ lastOp = Ended("none", "ok", Null, << >>)
  /\ assignmentHistory = << >>
  /\ autoRestart = TRUE
  /\ registryHealthCheckInterval = {} /\ registryTimers = {}
  /\ poll = IdlePoll /\ restarting = {} /\ uncaught = {}
  /\ lastPoll = NoPoll
  /\ worktrees = << >> /\ dirs \in DiskInputs /\ now = 0
  /\ lastWt = NoWt
  /\ managerConfig = NoConfig /\ configFile = NoFile /\ lastConfig = NoConfigCall
  /\ cwd = ProcessDirectory /\ personalWorktree = NoWorktrees /\ bodies = IdleBodies
  /\ strategies = DefaultStrategies /\ run = IdleRun /\ written = << >>
  /\ source = NoSource /\ parsed = NoConflict
  /\ eventHistory = << >> /\ emitted = 0

DiscoveryNext ==
  \/ DiscoverWorktrees
  \/ CreateWorktree
  \/ RemoveWorktree

SpecDiscovery == DiscoveryInit /\ [][DiscoveryNext]_vars

\* ------------------------------------------------------------- EventBus
\* EventBus.maxHistorySize.
maxHistorySize == 1000

MaxEmits == 1002

\* Array.prototype.slice(-n): the last n elements, all of them when there
\* are no more than n.
SliceLast(s, n) == IF Len(s) <= n THEN s ELSE SubSeq(s, Len(s) - n + 1, Len(s))

\* A history that drops the newest event when it is full.
addToHistoryKeepsOldest(history, event) ==
  LET pushed == Append(history, event)
  IN IF Len(pushed) > maxHistorySize THEN SubSeq(pushed, 1, maxHistorySize) ELSE pushed

\* EventBus.addToHistory.
addToHistory(history, event) ==
  LET pushed == Append(history, event)
  IN IF Len(pushed) > maxHistorySize THEN SliceLast(pushed, maxHistorySize) ELSE pushed

\* EventBus.emit: the event goes to the history, then to the log and to
\* the listeners, whose errors emit catches.  seq is the number of the
\* emission (the code's events carry an id and a timestamp).
emit(type, data) ==
  /\ eventHistory' = addToHistory(eventHistory, [seq |-> emitted + 1, type |-> type, data |-> data])
  /\ emitted' = emitted + 1

BusEmit ==
  /\ emitted < MaxEmits
  /\ emit("system:started", Null)
  /\ UNCHANGED <<agentVars, regVars, supVars, wtVars, procVars>>
  /\ UNCHANGED <<strategies, run, written, source, parsed>>

\* The history after n emissions to a bus whose history was never full.
HistoryAfter(n) == [i \in 1..n |-> [seq |-> i, type |-> "system:started", data |-> Null]]

\* The bus as constructed, or after emissions that left room for two more
\* events; everything else as constructed.
BusInit ==
  /\ status = "inactive" /\ healthCheckInterval = {} /\ timers = {}
  /\ currentTask = Null
  /\ metrics = [tasksCompleted |-> 0, successNum |-> 0, successDen |-> 1]
  /\ calls = [c \in CallIds |-> IdleCall]
  /\ microQ = << >>
  /\ agents = << >>
  /\ agentConfigs = EmptyMap
  /\ agentStatus = [a \in AgentIds |-> "inactive"]
  /\ agentMetrics = [a \in AgentIds |-> FreshMetrics]
  /\ stopping = {}
  /\ scan = IdleScan
  /\ lastOp = Ended("none", "ok", Null, << >>)
  /\ assignmentHistory = << >>
  /\ autoRestart = TRUE
  /\ registryHealthCheckInterval = {} /\ registryTimers = {}
  /\ poll = IdlePoll /\ restarting = {} /\ uncaught = {}
  /\ lastPoll = NoPoll
  /\ worktrees = << >> /\ dirs = << >> /\ now = 0
  /\ lastWt = NoWt
  /\ managerConfig = NoConfig /\ configFile = NoFile /\ lastConfig = NoConfigCall
  /\ cwd = ProcessDirectory /\ personalWorktree = NoWorktrees /\ bodies = IdleBodies
  /\ strategies = DefaultStrategies /\ run = IdleRun /\ written = << >>
  /\ source = NoSource /\ parsed = NoConflict
  /\ emitted \in {0, maxHistorySize - 2}
  /\ eventHistory = HistoryAfter(emitted)

BusNext == BusEmit

SpecBus == BusInit /\ [][BusNext]_vars

\* ============================================ AutomaticConflictResolver
\* ------------------------------------------------------- text functions
NL == "\n"

\* String.prototype.trim, for texts whose white space is the blank and the
\* line feed.
RECURSIVE TrimTextStart(_)
TrimTextStart(s) ==
  IF s # << >> /\ Head(s) \in {" ", NL} THEN TrimTextStart(Tail(s)) ELSE s

RECURSIVE TrimTextEnd(_)
TrimTextEnd(s) ==
  IF s # << >> /\ s[Len(s)] \in {" ", NL} THEN TrimTextEnd(SubSeq(s, 1, Len(s) - 1)) ELSE s

TrimText(s) == TrimTextEnd(TrimTextStart(s))

\* String.prototype.endsWith
EndsWith(s, suffix) ==
  Len(s) >= Len(suffix) /\ SubSeq(s, Len(s) - Len(suffix) + 1, Len(s)) = suffix

\* `x || ''` of a text that may be undefined.
OrEmpty(text) == IF text = NoText THEN << >> ELSE text

\* --------------------------------------------------- parseConflictFile
OursMarker == <<"<", "<", "<", "<", "<", "<", "<">>

SeparatorMarker == <<"=", "=", "=", "=", "=", "=", "=">>

TheirsMarker == <<">", ">", ">", ">", ">", ">", ">">>

\* No conflict block is open (currentConflict is null).
NoCurrent == [open |-> FALSE, startLine |-> 0, endLine |-> 0, ours |-> NoText, theirs |-> NoText]

\* A loop whose line counter starts one too low.
parseLineCountsFromZero(st, line) ==
  LET lineNumber == st.lineNumber
      cur == st.currentConflict
  IN IF StartsWith(line, OursMarker)
       THEN [st EXCEPT !.lineNumber = lineNumber + 1,
                       !.currentConflict = [NoCurrent EXCEPT !.open = TRUE, !.startLine = lineNumber,
                                                             !.ours = << >>]]
     ELSE IF StartsWith(line, TheirsMarker) /\ cur.open
       THEN [lineNumber |-> lineNumber + 1, currentConflict |-> NoCurrent,
             sections |-> Append(st.sections,
                                 [startLine |-> cur.startLine, endLine |-> lineNumber,
                                  ours |-> cur.ours, theirs |-> cur.theirs])]
     ELSE [st EXCEPT !.lineNumber = lineNumber + 1]

\* One turn of the loop of parseConflictFile.  The separator branch leaves
\* theirs undefined (`ours = ours || ''` is all it does), so `!theirs`
\* holds for every content line and both sides are collected in ours; the
\* branch that would set theirs is never taken, because a separator line
\* never reaches it.
parseLine(st, line) ==
  LET lineNumber == st.lineNumber + 1
      cur == st.currentConflict
  IN IF StartsWith(line, OursMarker)
       THEN [st EXCEPT !.lineNumber = lineNumber,
                       !.currentConflict = [NoCurrent EXCEPT !.open = TRUE, !.startLine = lineNumber,
                                                             !.ours = << >>]]
     ELSE IF StartsWith(line, SeparatorMarker) /\ cur.open
       THEN [st EXCEPT !.lineNumber = lineNumber,
                       !.currentConflict.ours = OrEmpty(cur.ours)]
     ELSE IF StartsWith(line, TheirsMarker) /\ cur.open
       THEN [lineNumber |-> lineNumber, currentConflict |-> NoCurrent,
             sections |-> Append(st.sections,
                                 [startLine |-> cur.startLine, endLine |-> lineNumber,
                                  ours |-> cur.ours, theirs |-> cur.theirs])]
     ELSE IF cur.open
       THEN IF cur.ours # NoText /\ ~StartsWith(line, SeparatorMarker)
              THEN IF cur.theirs = NoText \/ cur.theirs = << >>
                     THEN [st EXCEPT !.lineNumber = lineNumber,
                                     !.currentConflict.ours = cur.ours \o line \o <<NL>>]
                   ELSE [st EXCEPT !.lineNumber = lineNumber,
                                   !.currentConflict.theirs = cur.theirs \o line \o <<NL>>]
            ELSE IF StartsWith(line, SeparatorMarker)
              THEN [st EXCEPT !.lineNumber = lineNumber, !.currentConflict.theirs = << >>]
            ELSE [st EXCEPT !.lineNumber = lineNumber]
     ELSE [st EXCEPT !.lineNumber = lineNumber]

RECURSIVE parseLines(_, _)
parseLines(st, lines) ==
  IF lines = << >> THEN st ELSE parseLines(parseLine(st, Head(lines)), Tail(lines))

\* The sections of a file's content.
ParseSections(content) ==
  parseLines([lineNumber |-> 0, currentConflict |-> NoCurrent, sections |-> << >>],
             Split(content, NL)).sections

\* ------------------------------------------- the strategies: canResolve
\* The strategies that registerStrategy adds: one that accepts every
\* conflict and one that accepts the conflicts of package.json.
CustomStrategies == {"Take Ours", "Manifest Ours"}

\* ImportOrderConflictStrategy.isImportSection
isImportSection(text) ==
  LET lines == Split(TrimText(text), NL)
  IN \A i \in 1..Len(lines) :
       LET line == TrimText(lines[i])
       IN \/ line = << >>
          \/ StartsWith(line, <<"i", "m", "p", "o", "r", "t", " ">>)
          \/ StartsWith(line, <<"/", "/">>)
          \/ StartsWith(line, <<"/", "*">>)

\* /\.(js|ts|jsx|tsx)$/.test(file)
isJavaScriptFile(file) ==
  \E ext \in {<<".", "j", "s">>, <<".", "t", "s">>, <<".", "j", "s", "x">>, <<".", "t", "s", "x">>} : EndsWith(file, ext)

\* strategy.canResolve(conflict), by the name of the strategy.
canResolve(strategy, conflict) ==
  LET sections == conflict.sections
  IN CASE strategy = "Whitespace Conflict Resolver" ->
            \A i \in 1..Len(sections) :
              TrimText(sections[i].ours) = TrimText(OrEmpty(sections[i].theirs))
       [] strategy = "Import Order Conflict Resolver" ->
            /\ isJavaScriptFile(conflict.file)
            /\ \A i \in 1..Len(sections) :
                 /\ isImportSection(sections[i].ours)
                 /\ isImportSection(OrEmpty(sections[i].theirs))
       [] strategy = "Simple Addition Conflict Resolver" ->
            \A i \in 1..Len(sections) :
              \/ TrimText(sections[i].ours) = << >>
              \/ TrimText(OrEmpty(sections[i].theirs)) = << >>
       [] strategy = "Package.json Conflict Resolver" ->
            EndsWith(conflict.file, <<"p", "a", "c", "k", "a", "g", "e", ".", "j", "s", "o", "n">>)
       [] strategy = "Take Ours" -> TRUE
       [] strategy = "Manifest Ours" -> EndsWith(conflict.file, <<"p", "a", "c", "k", "a", "g", "e", ".", "j", "s", "o", "n">>)

\* AutomaticConflictResolver.isAutoResolvable
isAutoResolvable(sections, filePath) ==
  LET conflict == [file |-> filePath, type |-> "merge", sections |-> sections,
                   severity |-> "medium", autoResolvable |-> FALSE]
  IN \E i \in 1..Len(strategies) : canResolve(strategies[i], conflict)

\* AutomaticConflictResolver.calculateSeverity
calculateSeverity(sections, filePath) ==
  IF Len(sections) > 5 THEN "high"
  ELSE IF Includes(filePath, <<"p", "a", "c", "k", "a", "g", "e", ".", "j", "s", "o", "n">>) \/ Includes(filePath, <<"c", "o", "n", "f", "i", "g">>) THEN "high"
  ELSE IF \E i \in 1..Len(sections) :
            Len(sections[i].ours) > 1000 \/ Len(OrEmpty(sections[i].theirs)) > 1000 THEN "high"
  ELSE IF Len(sections) > 2 THEN "medium"
  ELSE "low"

\* parseConflictFile: the file is read and its ConflictInfo returned.
parseConflictFile ==
  /\ source.file # Null
  /\ LET sections == ParseSections(source.content)
     IN parsed' = [file |-> source.file, type |-> "merge", sections |-> sections,
                   severity |-> calculateSeverity(sections, source.file),
                   autoResolvable |-> isAutoResolvable(sections, source.file)]
  /\ UNCHANGED <<strategies, run, written, source, eventHistory, emitted>>
  /\ UNCHANGED <<agentVars, regVars, supVars, wtVars, procVars>>

\* ------------------------------------------------ the parser alone
\* The files parsed have up to MaxFileLines lines, each the start of a
\* conflict block, its separator, its end or a line of content.
MaxFileLines == 6

ParseLineTexts == {<<"<", "<", "<", "<", "<", "<", "<", " ", "a">>, <<"=", "=", "=", "=", "=", "=", "=">>, <<">", ">", ">", ">", ">", ">", ">", " ", "b">>, <<"x">>}

ParseFiles == {<<"a", ".", "t", "s">>, <<"p", "a", "c", "k", "a", "g", "e", ".", "j", "s", "o", "n">>}

ParseInputs ==
  {[file |-> f, content |-> JoinWith(lines, NL)] :
     f \in ParseFiles,
     lines \in UNION {[1..n -> ParseLineTexts] : n \in 0..MaxFileLines}}

\* A resolver as constructed, given a file to parse.
ParseInit ==
  /\ status = "inactive" /\ healthCheckInterval = {} /\ timers = {}
  /\ currentTask = Null
  /\ metrics = [tasksCompleted |-> 0, successNum |-> 0, successDen |-> 1]
  /\ calls = [c \in CallIds |-> IdleCall]
  /\ microQ = << >>
  /\ agents = << >>
  /\ agentConfigs = EmptyMap
  /\ agentStatus = [a \in AgentIds |-> "inactive"]
  /\ agentMetrics = [a \in AgentIds |-> FreshMetrics]
  /\ stopping = {}
  /\ scan = IdleScan
  /\ lastOp = Ended("none", "ok", Null, << >>)
  /\ assignmentHistory = << >>
  /\ autoRestart = TRUE
  /\ registryHealthCheckInterval = {} /\ registryTimers = {}
  /\ poll = IdlePoll /\ restarting = {} /\ uncaught = {}
  /\ lastPoll = NoPoll
  /\ worktrees = << >> /\ dirs = << >> /\ now = 0
  /\ lastWt = NoWt
  /\ managerConfig = NoConfig /\ configFile = NoFile /\ lastConfig = NoConfigCall
  /\ cwd = ProcessDirectory /\ personalWorktree = NoWorktrees /\ bodies = IdleBodies
  /\ strategies = DefaultStrategies /\ run = IdleRun /\ written = << >>
  /\ source \in ParseInputs /\ parsed = NoConflict
  /\ eventHistory = << >> /\ emitted = 0

ParseNext == parseConflictFile

SpecParse == ParseInit /\ [][ParseNext]_vars

\* ---------------------------------------------- the strategies: resolve
\* WhitespaceConflictStrategy.hasConsistentIndentation
LeadingBlanks(line) == Len(line) - Len(TrimTextStart(line))

hasConsistentIndentation(text) ==
  LET lines == SelectSeq(Split(text, NL), LAMBDA line : Len(TrimText(line)) > 0)
  IN \A i \in 1..Len(lines) :
       LeadingBlanks(lines[i]) % 2 = 0 \/ LeadingBlanks(lines[i]) % 4 = 0

\* ImportOrderConflictStrategy.parseImports
parseImports(text) ==
  LET lines == Split(text, NL)
      trimmed == [i \in 1..Len(lines) |-> TrimText(lines[i])]
  IN SelectSeq(trimmed, LAMBDA line : StartsWith(line, <<"i", "m", "p", "o", "r", "t", " ">>))

\* ImportOrderConflictStrategy.deduplicateImports
deduplicateImports(imports) ==
  LET first == {i \in 1..Len(imports) : \A j \in 1..(i - 1) : imports[j] # imports[i]}
  IN [k \in 1..Cardinality(first) |->
        imports[CHOOSE i \in first : Cardinality({j \in first : j < i}) = k - 1]]

\* ImportOrderConflictStrategy.extractImportSource: the first match of
\* /from ['"]([^'"]+)['"]/, or '' when there is none.
Quotes == {"'", "\""}

QuotedRunEnd(line, from) ==
  IF \E j \in from..Len(line) : line[j] \in Quotes
    THEN CHOOSE j \in from..Len(line) :
           line[j] \in Quotes /\ \A k \in from..(j - 1) : line[k] \notin Quotes
  ELSE Len(line) + 1

extractImportSource(importLine) ==
  LET matches == {i \in 1..Len(importLine) :
                    /\ i + 6 <= Len(importLine)
                    /\ SubSeq(importLine, i, i + 4) = <<"f", "r", "o", "m", " ">>
                    /\ importLine[i + 5] \in Quotes
                    /\ QuotedRunEnd(importLine, i + 6) > i + 6
                    /\ QuotedRunEnd(importLine, i + 6) <= Len(importLine)}
  IN IF matches = {} THEN << >>
     ELSE LET i == CHOOSE m \in matches : \A n \in matches : m <= n
          IN SubSeq(importLine, i + 6, QuotedRunEnd(importLine, i + 6) - 1)

\* String.prototype.localeCompare, for texts of lower-case letters, "." and
\* "/": punctuation sorts before the letters, "." before "/".
CollationOrder == <<".", "/">> \o LowerCase

Rank(c) == CHOOSE k \in 1..Len(CollationOrder) : CollationOrder[k] = c

RECURSIVE localeCompare(_, _)
localeCompare(a, b) ==
  IF a = << >> /\ b = << >> THEN 0
  ELSE IF a = << >> THEN -1
  ELSE IF b = << >> THEN 1
  ELSE IF Rank(Head(a)) < Rank(Head(b)) THEN -1
  ELSE IF Rank(Head(a)) > Rank(Head(b)) THEN 1
  ELSE localeCompare(Tail(a), Tail(b))

\* The comparison function of sortImports.
compareImports(a, b) ==
  LET aSource == extractImportSource(a)
      bSource == extractImportSource(b)
      aIsExternal == ~StartsWith(aSource, <<".">>)
      bIsExternal == ~StartsWith(bSource, <<".">>)
  IN IF aIsExternal /\ ~bIsExternal THEN -1
     ELSE IF ~aIsExternal /\ bIsExternal THEN 1
     ELSE localeCompare(aSource, bSource)

\* Array.prototype.sort with compareImports: the sort is stable, an element
\* goes behind the elements it does not come before.
InsertImport(sorted, imp) ==
  LET behind == {i \in 1..Len(sorted) : compareImports(imp, sorted[i]) < 0}
      at == IF behind = {} THEN Len(sorted) + 1
            ELSE CHOOSE i \in behind : \A j \in behind : i <= j
  IN SubSeq(sorted, 1, at - 1) \o <<imp>> \o SubSeq(sorted, at, Len(sorted))

RECURSIVE sortImportsFrom(_, _)
sortImportsFrom(sorted, imports) ==
  IF imports = << >> THEN sorted
  ELSE sortImportsFrom(InsertImport(sorted, Head(imports)), Tail(imports))

sortImports(imports) == sortImportsFrom(<< >>, imports)

\* ImportOrderConflictStrategy.resolve, for one section.
resolveImportSection(section) ==
  LET allImports == parseImports(section.ours) \o parseImports(OrEmpty(section.theirs))
      sortedImports == sortImports(deduplicateImports(allImports))
  IN JoinWith(sortedImports, NL) \o <<NL>>

\* strategy.resolve(conflict), by the name of the strategy, when it does
\* not throw: what each section contributes, concatenated.  The manifest
\* strategy returns the content of the file it reads (fullContent).
resolve(strategy, conflict, fullContent) ==
  LET sections == conflict.sections
  IN CASE strategy = "Whitespace Conflict Resolver" ->
            Concat([i \in 1..Len(sections) |->
                      IF hasConsistentIndentation(sections[i].ours)
                        THEN sections[i].ours ELSE OrEmpty(sections[i].theirs)])
       [] strategy = "Import Order Conflict Resolver" ->
            Concat([i \in 1..Len(sections) |-> resolveImportSection(sections[i])])
       [] strategy = "Simple Addition Conflict Resolver" ->
            Concat([i \in 1..Len(sections) |->
                      IF TrimText(sections[i].ours) # << >>
                        THEN sections[i].ours ELSE OrEmpty(sections[i].theirs)])
       [] strategy = "Package.json Conflict Resolver" -> fullContent
       [] strategy \in CustomStrategies ->
            Concat([i \in 1..Len(sections) |-> sections[i].ours])

\* The strategies whose resolve can throw: the manifest strategy reads the
\* file, the added ones are any code.
MayThrow == {"Package.json Conflict Resolver"} \cup CustomStrategies

\* ----------------------------------------------------- resolveConflicts
\* A findBestStrategy that returns the last strategy that accepts.
findBestStrategyLast(conflict) ==
  LET applicable == SelectSeq(strategies, LAMBDA strategy : canResolve(strategy, conflict))
  IN IF applicable = << >> THEN Null ELSE applicable[Len(applicable)]

\* AutomaticConflictResolver.findBestStrategy: the name of the first
\* strategy that accepts, or Null.
findBestStrategy(conflict) ==
  LET applicable == SelectSeq(strategies, LAMBDA strategy : canResolve(strategy, conflict))
  IN IF applicable = << >> THEN Null ELSE applicable[1]

\* The results of a call.  file is the file of the conflict the result was
\* pushed for (the code's result names it in its output or error text only).
Resolved(conflict, strategy) ==
  [success |-> TRUE, file |-> conflict.file, strategy |-> strategy, error |-> Null]

Failed(conflict, error) ==
  [success |-> FALSE, file |-> conflict.file, strategy |-> Null, error |-> error]

\* A loop that ends at the first conflict it cannot resolve.
advanceStopsAtFailure(conflicts, idx, results) ==
  IF idx > Len(conflicts)
    THEN [pc |-> "done", conflicts |-> conflicts, idx |-> idx, results |-> results,
          strategy |-> Null]
  ELSE LET strategy == findBestStrategy(conflicts[idx])
       IN IF strategy # Null /\ conflicts[idx].autoResolvable
            THEN [pc |-> "awaiting", conflicts |-> conflicts, idx |-> idx, results |-> results,
                  strategy |-> strategy]
          ELSE [pc |-> "done", conflicts |-> conflicts, idx |-> idx + 1,
                results |-> Append(results, Failed(conflicts[idx], "NoStrategy")),
                strategy |-> Null]

\* The loop runs without giving control away from conflict idx on: every
\* conflict that has no strategy, or is not flagged autoResolvable, gets its
\* failed result at once, up to the first conflict whose resolve is awaited.
RECURSIVE advance(_, _, _)
advance(conflicts, idx, results) ==
  IF idx > Len(conflicts)
    THEN [pc |-> "done", conflicts |-> conflicts, idx |-> idx, results |-> results,
          strategy |-> Null]
  ELSE LET strategy == findBestStrategy(conflicts[idx])
       IN IF strategy # Null /\ conflicts[idx].autoResolvable
            THEN [pc |-> "awaiting", conflicts |-> conflicts, idx |-> idx, results |-> results,
                  strategy |-> strategy]
          ELSE advance(conflicts, idx + 1,
                       Append(results, Failed(conflicts[idx], "NoStrategy")))

\* resolveConflicts up to its first await, or to its end.
resolveConflicts(conflicts) ==
  /\ run.pc = "idle"
  /\ run' = advance(conflicts, 1, << >>)
  /\ UNCHANGED <<strategies, written, source, parsed, eventHistory, emitted>>
  /\ UNCHANGED <<agentVars, regVars, supVars, wtVars, procVars>>

\* The call resumes: the strategy's resolve returned or threw, the write
\* succeeded or failed; the result is pushed, the event emitted on success,
\* and the loop goes on to its next await or to its end.
ResolveResume(resolveThrows, writeFails, fullContent) ==
  /\ run.pc = "awaiting"
  /\ LET conflict == run.conflicts[run.idx]
     IN IF resolveThrows
          THEN /\ run.strategy \in MayThrow
               /\ run' = advance(run.conflicts, run.idx + 1,
                                 Append(run.results, Failed(conflict, "ResolveThrew")))
               /\ UNCHANGED <<written, eventHistory, emitted>>
        ELSE IF writeFails
          THEN /\ run' = advance(run.conflicts, run.idx + 1,
                                 Append(run.results, Failed(conflict, "WriteThrew")))
               /\ UNCHANGED <<written, eventHistory, emitted>>
        ELSE /\ written' = Append(written, [file |-> conflict.file,
                                            content |-> resolve(run.strategy, conflict, fullContent)])
             /\ emit("git:conflict", [file |-> conflict.file, resolved |-> TRUE,
                                      strategy |-> run.strategy])
             /\ run' = advance(run.conflicts, run.idx + 1,
                               Append(run.results, Resolved(conflict, run.strategy)))
  /\ UNCHANGED <<strategies, source, parsed>>
  /\ UNCHANGED <<agentVars, regVars, supVars, wtVars, procVars>>

\* AutomaticConflictResolver.registerStrategy
MaxAdded == 2

registerStrategy(strategy) ==
  /\ Len(strategies) < Len(DefaultStrategies) + MaxAdded
  /\ strategies' = Append(strategies, strategy)
  /\ UNCHANGED <<run, written, source, parsed, eventHistory, emitted>>
  /\ UNCHANGED <<agentVars, regVars, supVars, wtVars, procVars>>

\* -------------------------------------------------- the resolver alone
\* The conflicts of a batch: sides that differ in white space only; import
\* lines that differ, in a source file; import lines added on one side, in
\* a source file; a line added on one side; a manifest; sides that differ,
\* which no built-in strategy accepts; and a conflict as
\* GitRepository.analyzeRepository builds it, without sections and not
\* flagged autoResolvable.
Section(ours, theirs) == [startLine |-> 1, endLine |-> 4, ours |-> ours, theirs |-> theirs]

Conflict(file, sections, autoResolvable) ==
  [file |-> file, type |-> "merge", sections |-> sections, severity |-> "low",
   autoResolvable |-> autoResolvable]

ConflictInputs ==
  {Conflict(<<"a", ".", "t", "s">>, <<Section(<<" ", "x", "\n">>, <<"x", "\n">>)>>, TRUE),
   Conflict(<<"a", ".", "t", "s">>, <<Section(<<"i", "m", "p", "o", "r", "t", " ", "a", " ", "f", "r", "o", "m", " ", "'", "a", "'", "\n">>, <<"i", "m", "p", "o", "r", "t", " ", "b", " ", "f", "r", "o", "m", " ", "'", ".", "/", "b", "'", "\n">>)>>, TRUE),
   Conflict(<<"a", ".", "t", "s">>, <<Section(<<"i", "m", "p", "o", "r", "t", " ", "a", " ", "f", "r", "o", "m", " ", "'", "a", "'", "\n">>, << >>)>>, TRUE),
   Conflict(<<"a", ".", "p", "y">>, <<Section(<<"x", "\n">>, << >>)>>, TRUE),
   Conflict(<<"p", "a", "c", "k", "a", "g", "e", ".", "j", "s", "o", "n">>, <<Section(<<"x", "\n">>, <<"y", "\n">>)>>, TRUE),
   Conflict(<<"a", ".", "p", "y">>, <<Section(<<"x", "\n">>, <<"y", "\n">>)>>, TRUE),
   Conflict(<<"a", ".", "t", "s">>, << >>, FALSE)}

MaxBatch == 2

Batches == UNION {[1..n -> ConflictInputs] : n \in 0..MaxBatch}

\* The content of package.json on disk.
ManifestContent == <<"z", "\n">>

\* The resolver as constructed; everything else as constructed.
ResolverInit ==
  /\ status = "inactive" /\ healthCheckInterval = {} /\ timers = {}
  /\ currentTask = Null
  /\ metrics = [tasksCompleted |-> 0, successNum |-> 0, successDen |-> 1]
  /\ calls = [c \in CallIds |-> IdleCall]
  /\ microQ = << >>
  /\ agents = << >>
  /\ agentConfigs = EmptyMap
  /\ agentStatus = [a \in AgentIds |-> "inactive"]
  /\ agentMetrics = [a \in AgentIds |-> FreshMetrics]
  /\ stopping = {}
  /\ scan = IdleScan
  /\ lastOp = Ended("none", "ok", Null, << >>)
  /\ assignmentHistory = << >>
  /\ autoRestart = TRUE
  /\ registryHealthCheckInterval = {} /\ registryTimers = {}
  /\ poll = IdlePoll /\ restarting = {} /\ uncaught = {}
  /\ lastPoll = NoPoll
  /\ worktrees = << >> /\ dirs = << >> /\ now = 0
  /\ lastWt = NoWt
  /\ managerConfig = NoConfig /\ configFile = NoFile /\ lastConfig = NoConfigCall
  /\ cwd = ProcessDirectory /\ personalWorktree = NoWorktrees /\ bodies = IdleBodies
  /\ strategies = DefaultStrategies /\ run = IdleRun /\ written = << >>
  /\ source = NoSource /\ parsed = NoConflict
  /\ eventHistory = << >> /\ emitted = 0

ResolverNext ==
  \/ \E strategy \in CustomStrategies : registerStrategy(strategy)
  \/ \E conflicts \in Batches : resolveConflicts(conflicts)
  \/ \E resolveThrows, writeFails \in BOOLEAN :
       ResolveResume(resolveThrows, writeFails, ManifestContent)

SpecResolver == ResolverInit /\ [][ResolverNext]_vars

\* ------------------------------------- import conflicts, parsed and resolved
\* The import lines of a side: imports of the packages a and b, of the
\* relative module ./c, and the import of the relative module ./s for its
\* side effects.
ImportLines == {<<"i", "m", "p", "o", "r", "t", " ", "a", " ", "f", "r", "o", "m", " ", "'", "a", "'">>, <<"i", "m", "p", "o", "r", "t", " ", "b", " ", "f", "r", "o", "m", " ", "'", "b", "'">>, <<"i", "m", "p", "o", "r", "t", " ", "c", " ", "f", "r", "o", "m", " ", "'", ".", "/", "c", "'">>, <<"i", "m", "p", "o", "r", "t", " ", "'", ".", "/", "s", "'">>}

MaxSideImports == 2

Sides == UNION {[1..n -> ImportLines] : n \in 1..MaxSideImports}

SourceFiles == {<<"a", ".", "j", "s">>, <<"a", ".", "t", "s">>, <<"a", ".", "j", "s", "x">>, <<"a", ".", "t", "s", "x">>}

\* A file with one conflict block.
ConflictFile(file, ours, theirs) ==
  [file |-> file,
   content |-> JoinWith(<<<<"<", "<", "<", "<", "<", "<", "<", " ", "a">>>> \o ours \o <<<<"=", "=", "=", "=", "=", "=", "=">>>> \o theirs \o <<<<">", ">", ">", ">", ">", ">", ">", " ", "b">>>>, NL)]

ImportInputs ==
  {ConflictFile(in.file, in.ours, in.theirs) :
     in \in {x \in [file : SourceFiles, ours : Sides, theirs : Sides] : x.ours # x.theirs}}

\* A resolver as constructed, given a source file whose one conflict block
\* holds import lines that differ between the sides.
ImportsInit ==
  /\ status = "inactive" /\ healthCheckInterval = {} /\ timers = {}
  /\ currentTask = Null
  /\ metrics = [tasksCompleted |-> 0, successNum |-> 0, successDen |-> 1]
  /\ calls = [c \in CallIds |-> IdleCall]
  /\ microQ = << >>
  /\ agents = << >>
  /\ agentConfigs = EmptyMap
  /\ agentStatus = [a \in AgentIds |-> "inactive"]
  /\ agentMetrics = [a \in AgentIds |-> FreshMetrics]
  /\ stopping = {}
  /\ scan = IdleScan
  /\ lastOp = Ended("none", "ok", Null, << >>)
  /\ assignmentHistory = << >>
  /\ autoRestart = TRUE
  /\ registryHealthCheckInterval = {} /\ registryTimers = {}
  /\ poll = IdlePoll /\ restarting = {} /\ uncaught = {}
  /\ lastPoll = NoPoll
  /\ worktrees = << >> /\ dirs = << >> /\ now = 0
  /\ lastWt = NoWt
  /\ managerConfig = NoConfig /\ configFile = NoFile /\ lastConfig = NoConfigCall
  /\ cwd = ProcessDirectory /\ personalWorktree = NoWorktrees /\ bodies = IdleBodies
  /\ strategies = DefaultStrategies /\ run = IdleRun /\ written = << >>
  /\ source \in ImportInputs /\ parsed = NoConflict
  /\ eventHistory = << >> /\ emitted = 0

\* The file is parsed, and the ConflictInfo returned is resolved.
ImportsNext ==
  \/ parseConflictFile
  \/ parsed.file # Null /\ resolveConflicts(<<parsed>>)
  \/ \E writeFails \in BOOLEAN : ResolveResume(FALSE, writeFails, ManifestContent)

SpecImports == ImportsInit /\ [][ImportsNext]_vars

\* ------------------------------ conflicts inside a file, parsed and resolved
\* A file with one conflict block, of at most one line a side, and at most
\* one line of content before the block and one behind it.
UpToOne(lines) == {<< >>} \cup {<<line>> : line \in lines}

WriteBackInputs ==
  {[file |-> in.file,
    content |-> JoinWith(in.before \o <<<<"<", "<", "<", "<", "<", "<", "<", " ", "a">>>> \o in.ours \o <<<<"=", "=", "=", "=", "=", "=", "=">>>> \o in.theirs
                           \o <<<<">", ">", ">", ">", ">", ">", ">", " ", "b">>>> \o in.behind, NL)] :
     in \in [file : {<<"a", ".", "p", "y">>, <<"a", ".", "t", "s">>},
             before : UpToOne({<<"k">>, <<"m">>}), behind : UpToOne({<<"k">>, <<"m">>}),
             ours : UpToOne({<<"x">>, <<"y">>}), theirs : UpToOne({<<"x">>, <<"y">>})]}

\* A resolver as constructed, given such a file.
WriteBackInit ==
  /\ status = "inactive" /\ healthCheckInterval = {} /\ timers = {}
  /\ currentTask = Null
  /\ metrics = [tasksCompleted |-> 0, successNum |-> 0, successDen |-> 1]
  /\ calls = [c \in CallIds |-> IdleCall]
  /\ microQ = << >>
  /\ agents = << >>
  /\ agentConfigs = EmptyMap
  /\ agentStatus = [a \in AgentIds |-> "inactive"]
  /\ agentMetrics = [a \in AgentIds |-> FreshMetrics]
  /\ stopping = {}
  /\ scan = IdleScan
  /\ lastOp = Ended("none", "ok", Null, << >>)
  /\ assignmentHistory = << >>
  /\ autoRestart = TRUE
  /\ registryHealthCheckInterval = {} /\ registryTimers = {}
  /\ poll = IdlePoll /\ restarting = {} /\ uncaught = {}
  /\ lastPoll = NoPoll
  /\ worktrees = << >> /\ dirs = << >> /\ now = 0
  /\ lastWt = NoWt
  /\ managerConfig = NoConfig /\ configFile = NoFile /\ lastConfig = NoConfigCall
  /\ cwd = ProcessDirectory /\ personalWorktree = NoWorktrees /\ bodies = IdleBodies
  /\ strategies = DefaultStrategies /\ run = IdleRun /\ written = << >>
  /\ source \in WriteBackInputs /\ parsed = NoConflict
  /\ eventHistory = << >> /\ emitted = 0

\* The file is parsed, and the ConflictInfo returned is resolved.
WriteBackNext ==
  \/ parseConflictFile
  \/ parsed.file # Null /\ resolveConflicts(<<parsed>>)
  \/ \E writeFails \in BOOLEAN : ResolveResume(FALSE, writeFails, ManifestContent)

SpecWriteBack == WriteBackInit /\ [][WriteBackNext]_vars

\* ------------------------------------------- the registry supervising
\* The registry as constructed, autoRestart being on or off, with agents as
\* constructed.
SupervisionInit ==
  /\ status = "inactive" /\ healthCheckInterval = {} /\ timers = {}
  /\ currentTask = Null
  /\ metrics = [tasksCompleted |-> 0, successNum |-> 0, successDen |-> 1]
  /\ calls = [c \in CallIds |-> IdleCall]
  /\ microQ = << >>
  /\ agents = << >>
  /\ agentConfigs = EmptyMap
  /\ agentStatus = [a \in AgentIds |-> "inactive"]
  /\ agentMetrics = [a \in AgentIds |-> FreshMetrics]
  /\ stopping = {}
  /\ scan = IdleScan
  /\ lastOp = Ended("none", "ok", Null, << >>)
  /\ assignmentHistory = << >>
  /\ autoRestart \in BOOLEAN
  /\ registryHealthCheckInterval = {} /\ registryTimers = {}
  /\ poll = IdlePoll /\ restarting = {} /\ uncaught = {}
  /\ lastPoll = NoPoll
  /\ worktrees = << >> /\ dirs = << >> /\ now = 0
  /\ lastWt = NoWt
  /\ managerConfig = NoConfig /\ configFile = NoFile /\ lastConfig = NoConfigCall
  /\ cwd = ProcessDirectory /\ personalWorktree = NoWorktrees /\ bodies = IdleBodies
  /\ strategies = DefaultStrategies /\ run = IdleRun /\ written = << >>
  /\ source = NoSource /\ parsed = NoConflict
  /\ eventHistory = << >> /\ emitted = 0

\* The agents supervised, and the statuses they take by themselves.
SupervisedAgents == {"a1", "a2"}

SupervisedStatus == {"active", "error"}

\* The agents that are unregistered while supervised.
RemovedAgents == {"a2"}

SupervisionNext ==
  \/ initialize
  \/ \E a \in SupervisedAgents : registerAgent(a, ConfigOf(a))
  \/ \E a \in SupervisedAgents, s \in SupervisedStatus : AgentStatusChange(a, s)
  \/ PollBegin
  \/ \E a \in SupervisedAgents, failed \in BOOLEAN : HealthSampled(a, failed)
  \/ PollFinish
  \/ \E a \in SupervisedAgents, outcome \in RestartOutcomes : RestartSettles(a, outcome)
  \/ \E a \in RemovedAgents : unregisterAgent(a)
  \/ \E a \in RemovedAgents, stopped \in BOOLEAN : UnregisterResume(a, stopped)

SpecSupervision == SupervisionInit /\ [][SupervisionNext]_vars

\* ------------------------------------------------- the agent on its own
\* The agent as constructed (Inactive), or as a start() that returned left it
\* (Active, its health-check timer scheduled; that timer is named 0); the
\* registry as constructed.
AgentInit ==
  /\ \/ status = "inactive" /\ healthCheckInterval = {} /\ timers = {}
     \/ status = "active" /\ healthCheckInterval = {0} /\ timers = {0}
  /\ currentTask = Null
  /\ metrics = [tasksCompleted |-> 0, successNum |-> 0, successDen |-> 1]
  /\ calls = [c \in CallIds |-> IdleCall]
  /\ microQ = << >>
  /\ agents = << >>
  /\ agentConfigs = EmptyMap
  /\ agentStatus = [a \in AgentIds |-> "inactive"]
  /\ agentMetrics = [a \in AgentIds |-> FreshMetrics]
  /\ stopping = {}
  /\ scan = IdleScan
  /\ lastOp = Ended("none", "ok", Null, << >>)
  /\ autoRestart = TRUE
  /\ registryHealthCheckInterval = {} /\ registryTimers = {}
  /\ poll = IdlePoll /\ restarting = {} /\ uncaught = {}
  /\ lastPoll = NoPoll
  /\ worktrees = << >> /\ dirs = << >> /\ now = 0
  /\ lastWt = NoWt
  /\ managerConfig = NoConfig /\ configFile = NoFile /\ lastConfig = NoConfigCall
  /\ cwd = ProcessDirectory /\ personalWorktree = NoWorktrees /\ bodies = IdleBodies
  /\ strategies = DefaultStrategies /\ run = IdleRun /\ written = << >>
  /\ source = NoSource /\ parsed = NoConflict
  /\ eventHistory = << >> /\ emitted = 0
  /\ assignmentHistory = << >>

AgentNext ==
  \/ \E c \in CallIds : StartCall(c)
  \/ \E c \in CallIds : StartRunInitialize(c)
  \/ \E c \in CallIds : InitializeReturns(c)
  \/ \E c \in CallIds : InitializeThrows(c)
  \/ \E c \in CallIds : StartFinish(c)
  \/ \E c \in CallIds : StartRethrow(c)
  \/ \E c \in CallIds : StopCall(c)
  \/ \E c \in CallIds : StopResume(c)
  \/ \E c \in CallIds : StopRunCleanup(c)
  \/ \E c \in CallIds : CleanupReturns(c)
  \/ \E c \in CallIds : CleanupThrows(c)
  \/ \E c \in CallIds : StopFinish(c)
  \/ \E c \in CallIds : RestartCall(c)
  \/ \E c \in CallIds : RestartRunStart(c)
  \/ \E c \in CallIds, t \in AgentTasks : ExecuteTaskCall(c, t)
  \/ \E c \in CallIds : ExecuteTaskResume(c)
  \/ \E c \in CallIds, ok \in BOOLEAN : PerformTaskReturns(c, ok)
  \/ \E c \in CallIds : PerformTaskThrows(c)
  \/ \E c \in CallIds : ExecuteTaskFinish(c)

Spec == AgentInit /\ [][AgentNext]_vars

\* =================================================== properties: the agent
Wrote(tr, s) == \E i \in 1..Len(tr) : tr[i].e = "status" /\ tr[i].v = s

Emitted(tr, e) == \E i \in 1..Len(tr) : tr[i].e = e

CountOf(tr, e) == Cardinality({i \in 1..Len(tr) : tr[i].e = e})

\* The part of a call's trace that its start() produced.
StartTrace(c) == SubSeq(calls[c].trace, calls[c].startFrom + 1, Len(calls[c].trace))

AllowedTransitions ==
  {<<"inactive", "starting">>, <<"error", "starting">>, <<"starting", "active">>,
   <<"starting", "error">>, <<"active", "busy">>, <<"busy", "active">>,
   <<"stopping", "inactive">>}
  \cup ({"starting", "active", "busy", "error"} \X {"stopping"})

\* C1 (as claimed): every change of the agent's status is one of the
\* transitions of the lifecycle; no other status change ever occurs.
C1_OnlyLifecycleTransitions ==
  [][status' # status => <<status, status'>> \in AllowedTransitions]_vars

\* C2 (as claimed): an executeTask called on an agent whose status is not
\* Active neither changes the status nor runs the task body.
C2_ExecuteTaskRequiresActive ==
  \A c \in CallIds :
    (calls[c].op = "executeTask" /\ calls[c].atCall # "active") =>
      /\ ~calls[c].bodyRan
      /\ \A i \in 1..Len(calls[c].trace) : calls[c].trace[i].e # "status"

\* C6 (as claimed, in the form a finite run decides): a stop() called on a
\* non-Inactive agent that has ended, whatever its cleanup hook did, has set
\* the status Inactive and emitted agent:stopped; with nothing else acting
\* on the agent, the agent is then Inactive and not left in Stopping.
C6_StopReachesInactive ==
  \A c \in CallIds :
    (calls[c].op = "stop" /\ calls[c].atCall # "inactive"
       /\ calls[c].pc \in {"returned", "threw"}) =>
      /\ Wrote(calls[c].trace, "inactive")
      /\ Emitted(calls[c].trace, "agent:stopped")
      /\ (calls[c].solo => status = "inactive")

\* C7: with no other operation interleaving, executeTask on an Active agent
\* never throws; a body that threw and a task the capability predicate
\* rejected both give the error result (success = false, an error message);
\* the body is not run for a rejected task; and when executeTask has
\* returned a result the agent holds no current task and is Active.
C7_ExecuteTaskAlwaysReturnsResult ==
  \A c \in CallIds :
    (calls[c].op = "executeTask" /\ calls[c].atCall = "active" /\ calls[c].solo) =>
      /\ calls[c].pc # "threw"
      /\ (calls[c].body = "threw" => calls[c].result = "error")
      /\ (~canHandleTask(TheAgent, calls[c].task) =>
            /\ ~calls[c].bodyRan
            /\ (calls[c].pc # "e_busy" => calls[c].result = "error"))
      /\ (calls[c].pc = "returned" =>
            /\ calls[c].result # "none"
            /\ currentTask = Null
            /\ status = "active")

C7_Witness ==
  \E c \in CallIds :
    /\ calls[c].op = "executeTask" /\ calls[c].atCall = "active" /\ calls[c].solo
    /\ calls[c].pc = "returned" /\ calls[c].body = "threw" /\ calls[c].result = "error"

CancelPrecedesInactive(c) ==
  calls[c].held # Null =>
    \E i \in 1..Len(calls[c].trace) :
      /\ calls[c].trace[i] = Entry("task:failed", calls[c].held, "shutdown")
      /\ \A j \in 1..Len(calls[c].trace) :
           (calls[c].trace[j].e = "agent:stopped"
              \/ (calls[c].trace[j].e = "status" /\ calls[c].trace[j].v = "inactive")) => i < j

C9_StartOutcome ==
  \A c \in CallIds :
    (calls[c].op = "start" /\ calls[c].atStart \in {"inactive", "error"}) =>
      /\ StartTrace(c)[1] = Entry("status", "starting", "changed")
      /\ (calls[c].pc = "returned" =>
            /\ Len(StartTrace(c)) = 3
            /\ StartTrace(c)[2].e = "status" /\ StartTrace(c)[2].v = "active"
            /\ StartTrace(c)[3].e = "agent:started"
            /\ CountOf(StartTrace(c), "agent:started") = 1)
      /\ (calls[c].pc = "threw" =>
            /\ Wrote(StartTrace(c), "error")
            /\ ~Emitted(StartTrace(c), "agent:started")
            /\ c \notin timers)

C9_Witness ==
  \E c, d \in CallIds :
    /\ calls[c].op = "start" /\ calls[c].atStart = "inactive" /\ calls[c].pc = "threw"
    /\ calls[d].op = "start" /\ calls[d].atStart = "error" /\ calls[d].pc = "returned"

\* C10 (as claimed): inside restart(), start() begins only after stop() has
\* returned, and the agent's status is Inactive at that moment.
C10_RestartStartsFromInactive ==
  \A c \in CallIds :
    (calls[c].op = "restart" /\ calls[c].atStart # Null) =>
      /\ calls[c].trace[calls[c].startFrom].e = "agent:stopped"
      /\ calls[c].atStart = "inactive"

\* C10 (amended): inside restart(), start() begins only after stop() has
\* returned (a restart() whose stop() threw has thrown without beginning
\* start()), and, when no other operation on the agent interleaves with the
\* restart(), the agent's status is Inactive at the moment start() begins.
C10_RestartStartsAfterStop ==
  \A c \in CallIds :
    calls[c].op = "restart" =>
      /\ (calls[c].atStart # Null =>
            /\ calls[c].startFrom >= 1
            /\ calls[c].trace[calls[c].startFrom].e = "agent:stopped"
            /\ Wrote(SubSeq(calls[c].trace, 1, calls[c].startFrom), "inactive"))
      /\ (~Emitted(calls[c].trace, "agent:stopped") =>
            /\ ~Wrote(calls[c].trace, "starting")
            /\ calls[c].pc \notin {"s_starting", "s_init", "s_active", "s_error", "returned"})
      /\ ((calls[c].atStart # Null /\ calls[c].solo) => calls[c].atStart = "inactive")

C10_Witness ==
  \E c \in CallIds :
    /\ calls[c].op = "restart" /\ calls[c].solo /\ calls[c].atCall = "active"
    /\ calls[c].pc = "returned"

\* ================================================ properties: the registry
\* The registered agents that are Active and have, for every technical
\* requirement of t, a capability whose name contains its description, case
\* ignored; by their place in the order of registration.
Candidates(t) ==
  {i \in 1..Len(agents) :
     /\ agentStatus[agents[i]] = "active"
     /\ \A d \in TechnicalDescriptions(t) :
          \E k \in 1..Len(CapabilitiesOf(agents[i])) :
            Includes(ToLowerCase(CapabilitiesOf(agents[i])[k].name), ToLowerCase(d))}

ConfidenceAt(i, t) == calculateAgentTaskMatch(agents[i], t)

\* The candidate of highest confidence, the earliest registered among equals.
BestCandidate(t) ==
  agents[CHOOSE i \in Candidates(t) :
           \A j \in Candidates(t) :
             \/ ConfidenceAt(j, t) < ConfidenceAt(i, t)
             \/ ConfidenceAt(j, t) = ConfidenceAt(i, t) /\ i <= j]

\* A step in which a registerAgent call ended: the registry's last call is a
\* registerAgent, and its record or the agent map is new.
RegisterEnds ==
  /\ lastOp'.op = "registerAgent"
  /\ lastOp' # lastOp \/ agents' # agents

\* C3: the number of registered agents never exceeds maxAgents, whatever
\* registerAgent, unregisterAgent and cleanup calls are made; a registerAgent
\* call made while the registry holds maxAgents agents fails with the capacity
\* error and leaves the agent map, the config map and the assignment history
\* as they were.
C3_PopulationWithinCapacity ==
  /\ Len(agents) <= maxAgents
  /\ [][/\ Len(agents') <= maxAgents
        /\ (Len(agents) = maxAgents /\ RegisterEnds) =>
               /\ lastOp'.outcome = "CapacityExceeded"
               /\ UNCHANGED <<agents, agentConfigs, assignmentHistory>>]_vars

C3_Witness ==
  /\ lastOp.op = "registerAgent" /\ lastOp.outcome = "CapacityExceeded"
  /\ Len(agents) = maxAgents /\ DOMAIN agentConfigs = Range(agents)
  /\ assignmentHistory # << >>

\* C4: findBestAgentForTask returns no match exactly when no registered agent
\* is Active with every technical requirement contained, case ignored, in one
\* of its capability names; otherwise, on a registry and agents that stay as
\* they are during the lookup, it returns the candidate of highest confidence,
\* the earliest registered among those of equal highest confidence.  The
\* result is a function of the registry, the agents and the task, so a
\* repeated call returns the same agent.
C4_BestAgentIsReturned ==
  [][\A t \in Tasks :
       /\ findBestAgentForTask(t) =>
            /\ (scan'.op = "none") <=> (Candidates(t) = {})
            /\ (scan'.op = "none") =>
                  /\ lastOp'.op = "findBestAgentForTask" /\ lastOp'.result = Null
       /\ (/\ scan.op = "findBestAgentForTask" /\ scan.task = t
           /\ scan'.op = "none" /\ ~scan.disturbed) =>
            /\ Candidates(t) # {}
            /\ lastOp'.op = "findBestAgentForTask" /\ lastOp'.result = BestCandidate(t)]_vars

\* A lookup has just returned the earlier registered of two candidates of
\* equal confidence, a2 before a1.
C4_Witness ==
  /\ lastOp.op = "findBestAgentForTask" /\ lastOp.clean /\ lastOp.task # Null
  /\ agents = <<"a2", "a1">> /\ Candidates(lastOp.task) = {1, 2}
  /\ ConfidenceAt(1, lastOp.task) = ConfidenceAt(2, lastOp.task)
  /\ lastOp.result = "a2"

AssignFailures == {"NotFound", "NotActive", "NoSuitableAgent"}

\* A step in which assignTaskToAgent is called: no lookup is awaited, and the
\* step starts the lookup of an assignment or leaves the record, or the
\* entry, of an assignment that ended at once.
AssignCalled ==
  /\ scan.op = "none"
  /\ \/ scan'.op = "assignTaskToAgent"
     \/ /\ lastOp'.op = "assignTaskToAgent"
        /\ <<lastOp, assignmentHistory>>' # <<lastOp, assignmentHistory>>

\* A step that ends an assignTaskToAgent call.
AssignEnds ==
  \/ AssignCalled /\ scan'.op = "none"
  \/ scan.pc = "confidence" /\ scan'.op = "none"

\* What C5 says of the call once it has ended, and of the steps before.
AssignEffects ==
  /\ AssignEnds =>
       /\ lastOp'.op = "assignTaskToAgent"
       /\ lastOp'.outcome \in AssignFailures =>
            /\ UNCHANGED assignmentHistory
            /\ \A i \in 1..Len(lastOp'.events) : lastOp'.events[i] # "task:assigned"
       /\ lastOp'.outcome \notin AssignFailures =>
            /\ lastOp'.outcome = "ok"
            /\ Len(assignmentHistory') = Len(assignmentHistory) + 1
            /\ SubSeq(assignmentHistory', 1, Len(assignmentHistory)) = assignmentHistory
            /\ Cardinality({i \in 1..Len(lastOp'.events) : lastOp'.events[i] = "task:assigned"}) = 1
  /\ ~AssignEnds => UNCHANGED assignmentHistory

\* C5 (as claimed): assignTaskToAgent fails NotFound when the agentId it is
\* given is not registered, NotActive when that agent is not Active, and
\* NoSuitableAgent when no agentId is given and there is no candidate; a
\* failure leaves the history as it was and emits no task:assigned, a success
\* appends one entry and emits one task:assigned.
C5_AssignOutcomesAsClaimed ==
  [][/\ \A t \in AssignTasks, agentId \in AgentIdInputs :
          (AssignCalled /\ assignTaskToAgent(t, agentId)) =>
            /\ (agentId # Undefined /\ agentId \notin Range(agents)) =>
                  lastOp'.outcome = "NotFound"
            /\ (agentId # Undefined /\ agentId \in Range(agents)
                  /\ agentStatus[agentId] # "active") => lastOp'.outcome = "NotActive"
            /\ (agentId = Undefined /\ Candidates(t) = {}) =>
                  lastOp'.outcome = "NoSuitableAgent"
     /\ AssignEffects]_vars

\* C5 (amended): as claimed, with an agentId that is the empty string counted
\* as no agentId given.
C5_AssignOutcomes ==
  [][/\ \A t \in AssignTasks, agentId \in AgentIdInputs :
          (AssignCalled /\ assignTaskToAgent(t, agentId)) =>
            /\ (agentId \notin {Undefined, ""} /\ agentId \notin Range(agents)) =>
                  lastOp'.outcome = "NotFound"
            /\ (agentId \notin {Undefined, ""} /\ agentId \in Range(agents)
                  /\ agentStatus[agentId] # "active") => lastOp'.outcome = "NotActive"
            /\ (agentId \in {Undefined, ""} /\ Candidates(t) = {}) =>
                  lastOp'.outcome = "NoSuitableAgent"
     /\ AssignEffects]_vars

\* An assignment made by the scorer is on record: the one entry of the
\* history, to the agent the call returned, at a computed confidence.
C5_Witness ==
  /\ lastOp.op = "assignTaskToAgent" /\ lastOp.outcome = "ok"
  /\ Len(assignmentHistory) = 1
  /\ assignmentHistory[1].agentId = lastOp.result
  /\ assignmentHistory[1].confidence < 10000

\* The configs the contract of registerAgent calls invalid.
InvalidConfig(config) ==
  \/ config.id = << >>
  \/ config.name = << >>
  \/ config.role \notin AgentRole
  \/ config.workingDirectory = << >>
  \/ config.maxConcurrentTasks < 1

\* C11: a registerAgent call made at capacity, for an id already registered
\* or with an invalid config (empty id or name, role outside the enum, empty
\* workingDirectory, maxConcurrentTasks < 1) is rejected (the only call that
\* is accepted has room left, a new id and a valid config), and a rejected
\* call leaves the agent map and the config map as they were and emits no
\* event.
C11_RejectedBeforeMutation ==
  [][RegisterEnds =>
       /\ Len(agents) >= maxAgents => lastOp'.outcome # "ok"
       /\ lastOp'.outcome = "ok" =>
            /\ Len(agents') = Len(agents) + 1
            /\ agents'[Len(agents')] \notin Range(agents)
            /\ ~InvalidConfig(agentConfigs'[agents'[Len(agents')]])
       /\ lastOp'.outcome # "ok" =>
            /\ UNCHANGED <<agents, agentConfigs>>
            /\ lastOp'.events = << >>]_vars

\* C11 witness: with an agent registered and room left, a registerAgent was
\* rejected for its maxConcurrentTasks.
C11_Witness ==
  /\ lastOp.op = "registerAgent"
  /\ lastOp.outcome = "MaxConcurrentTasksTooLow"
  /\ Len(agents) = 1

\* A step in which cleanup() was called (it now awaits the stops of rec.awaiting),
\* and one in which the cleanup() that awaited rec.awaiting ended.
CleanupCalled(rec) == rec.op = "cleanup" /\ rec \in stopping' \ stopping

CleanupEnds(rec) == rec.op = "cleanup" /\ rec \in stopping \ stopping'

CleanupWaits == [op : {"cleanup"}, awaiting : SUBSET AgentIds]

\* C18: cleanup() calls stop() on every registered agent that is not Inactive
\* (each agent is Stopping at once, whatever the other stops do), and it ends
\* with the agent map, the config map and the assignment history empty and
\* without an error, whichever stops failed; a cleanup() of the empty registry
\* changes nothing and ends the same way.
C18_CleanupIsBestEffort ==
  [][stopping' # stopping =>
       \A rec \in (stopping' \ stopping) \cup (stopping \ stopping') :
         /\ CleanupCalled(rec) =>
              /\ rec \in CleanupWaits
              /\ rec.awaiting = {a \in Range(agents) : agentStatus[a] # "inactive"}
              /\ \A a \in rec.awaiting : agentStatus'[a] = "stopping"
              /\ agents = << >> =>
                   UNCHANGED <<agents, agentConfigs, assignmentHistory, agentStatus, lastOp>>
         /\ CleanupEnds(rec) =>
              /\ agents' = << >>
              /\ agentConfigs' = EmptyMap
              /\ assignmentHistory' = << >>
              /\ lastOp'.op = "cleanup" /\ lastOp'.outcome = "ok"]_vars

\* C18 witness: a cleanup() has ended with one agent's stop() failed (the
\* agent is left Stopping) and another's done, the registry empty.
C18_Witness ==
  /\ lastOp.op = "cleanup" /\ lastOp.outcome = "ok"
  /\ stopping = {}
  /\ agents = << >> /\ agentConfigs = EmptyMap /\ assignmentHistory = << >>
  /\ \E a, b \in AgentIds :
       /\ agentStatus[a] = "stopping"
       /\ b # a /\ agentStatus[b] = "inactive"

\* A step in which a poll ended, and one in which a restart() that a poll
\* called failed.
PollEnds == poll.pc = "sampling" /\ poll'.pc = "idle"

RestartFails(a) ==
  a \in restarting /\ a \notin restarting' /\ agentStatus'[a] # "active"

\* C19: a health-supervision poll calls restart() on exactly the registered
\* agents whose health record has status Error, and on none without
\* autoRestart; a restart() that fails does not escape the poll, and the
\* timer stays scheduled, so later polls run.
C19_PollRestartsAgentsInError ==
  /\ uncaught = {}
  /\ [][/\ PollEnds =>
             /\ lastPoll'.restarted =
                  IF autoRestart
                    THEN {a \in Range(agents) : a \in poll.sampled /\ poll.health[a] = "error"}
                    ELSE {}
             /\ \A a \in lastPoll'.restarted : a \in restarting' /\ agentStatus'[a] = "stopping"
             /\ \A a \in AgentIds \ lastPoll'.restarted :
                  agentStatus'[a] = agentStatus[a] /\ (a \in restarting' <=> a \in restarting)
        /\ \A a \in AgentIds : RestartFails(a) =>
             /\ uncaught' = {}
             /\ registryTimers' = registryTimers
             /\ registryTimers' # {}]_vars

\* C19 witness: with autoRestart, a poll has called restart() on one of two
\* registered agents, the one in Error, and that restart() has failed (the
\* agent is in Error again), the timer still scheduled.
C19_Witness ==
  /\ autoRestart
  /\ Len(agents) = 2
  /\ \E a \in Range(agents) :
       /\ lastPoll.restarted = {a}
       /\ a \notin restarting
       /\ agentStatus[a] = "error"
  /\ poll.pc = "idle"
  /\ registryTimers # {}

\* C19 witness: without autoRestart, a poll that sampled an agent in Error has
\* ended and restarted nothing.
C19_WitnessNoAutoRestart ==
  /\ ~autoRestart
  /\ \E a \in Range(agents) : agentStatus[a] = "error"
  /\ lastPoll.restarted = {}
  /\ poll.pc = "idle"

\* C20: when a stop() of the agent returns, none of the health-check timers
\* the agent scheduled is still scheduled, whatever start() and stop() calls
\* came before (the stop() overlapping no other call).
C20_NoTimerAfterStop ==
  [][\A c \in CallIds :
       (calls[c].op = "stop" /\ calls[c].solo /\ StopFinish(c)) => timers' = {}]_vars

\* ------------------------------------------------------- worktree claims
\* A step in which a WorktreeManager call of the given name ended.
WtStep(op) ==
  /\ lastWt'.op = op
  /\ <<worktrees, dirs, lastWt>>' # <<worktrees, dirs, lastWt>>

\* C15: removeWorktreeForAgent(id) reports NotFound, and changes neither the
\* records nor the disk, exactly when id has no record; when it reports
\* success the record of id alone is unregistered and nothing stands at its
\* path any more; when it reports failure the records and the disk are as
\* they were, the directory still standing.
C15_RemoveUnregistersOnSuccess ==
  [][WtStep("removeWorktreeForAgent") =>
       LET id == lastWt'.id
       IN /\ lastWt'.outcome = "NotFound" <=> id \notin Ids(worktrees)
          /\ lastWt'.outcome = "NotFound" => UNCHANGED <<worktrees, dirs>>
          /\ lastWt'.outcome = "ok" =>
               /\ worktrees' = Delete(worktrees, id)
               /\ Get(worktrees, id).path \notin Paths(dirs')
          /\ lastWt'.outcome = "RemoveFailed" =>
               /\ UNCHANGED <<worktrees, dirs>>
               /\ Get(worktrees, id).path \in Paths(dirs)]_vars

\* A removal that failed: the record is still there.
C15_Witness ==
  /\ lastWt.op = "removeWorktreeForAgent"
  /\ lastWt.outcome = "RemoveFailed"
  /\ lastWt.id \in Ids(worktrees)
  /\ Len(worktrees) = 2

\* C13: after a cleanupStaleWorktrees, every worktree whose lastActivity was
\* more than 24 hours before it is either unregistered (its removal worked)
\* or registered with status corrupted (its removal failed); none is left
\* with status active.
C13_FailedRemovalMarksCorrupted ==
  [][WtStep("cleanupStaleWorktrees") =>
       \A i \in 1..Len(worktrees) :
         Stale(worktrees[i], now) =>
           \/ worktrees[i].id \notin Ids(worktrees')
           \/ Get(worktrees', worktrees[i].id).status = "corrupted"]_vars

\* C14: a cleanupStaleWorktrees leaves every worktree whose lastActivity was
\* at most 24 hours before it as it was: its record is the same after the
\* sweep, and the directory that stood at its path still stands there.
C14_SweepSparesFreshWorktrees ==
  [][WtStep("cleanupStaleWorktrees") =>
       \A i \in 1..Len(worktrees) :
         ~Stale(worktrees[i], now) =>
           /\ worktrees[i].id \in Ids(worktrees')
           /\ Get(worktrees', worktrees[i].id) = worktrees[i]
           /\ \A j \in 1..Len(dirs) :
                dirs[j].path = worktrees[i].path =>
                  \E k \in 1..Len(dirs') : dirs'[k] = dirs[j]]_vars

\* C12: the manager holds at most one record per agent id, no two records
\* share a path, and the record createWorktreeForAgent made for an id has
\* the path generateWorktreePath gives for that id, whatever was created and
\* removed before.
C12_OneWorktreePerIdAndPath ==
  /\ \A i, j \in 1..Len(worktrees) :
       i # j => /\ worktrees[i].id # worktrees[j].id
                /\ worktrees[i].path # worktrees[j].path
  /\ \A i \in 1..Len(worktrees) :
       worktrees[i].path = generateWorktreePath(worktrees[i].id)

C16_WitnessReplaced ==
  /\ lastWt.op = "createWorktreeForAgent"
  /\ lastWt.outcome = "ok"
  /\ lastWt.id \in Ids(worktrees)
  /\ Get(worktrees, lastWt.id).branch = <<"b", "1">>
  /\ Len(worktrees) = 2
  /\ worktrees[1].id = lastWt.id

\* The agent id in the basename of a path, NoText where the basename is not
\* agent-<id>.
AgentIdOfPath(p) ==
  LET pathParts == Split(p, "/")
      dirName == pathParts[Len(pathParts)]
  IN IF StartsWith(dirName, AgentPrefix) /\ Len(dirName) > Len(AgentPrefix)
       THEN Substring(dirName, Len(AgentPrefix))
       ELSE NoText

\* The branch git lists for a worktree on branch b.
ListedBranch(b) == <<"r", "e", "f", "s", "/", "h", "e", "a", "d", "s", "/">> \o b

\* C17: after a discoverExistingWorktrees that read the list, every listed
\* worktree whose basename is agent-<id> has a record under that id, and
\* every record the discovery registered has the path of a listed worktree
\* with basename agent-<id>, that id, and the branch listed for that
\* worktree.
C17_DiscoveryRegistersAgentWorktrees ==
  [][(WtStep("discoverExistingWorktrees") /\ lastWt'.outcome = "ok") =>
       /\ \A k \in 1..Len(dirs) :
            AgentIdOfPath(dirs[k].path) # NoText =>
              \E i \in 1..Len(worktrees') :
                /\ worktrees'[i].id = AgentIdOfPath(dirs[k].path)
                /\ worktrees'[i].path = dirs[k].path
       /\ \A i \in 1..Len(worktrees') :
            worktrees'[i] \notin Range(worktrees) =>
              \E k \in 1..Len(dirs) :
                /\ dirs[k].path = worktrees'[i].path
                /\ AgentIdOfPath(dirs[k].path) = worktrees'[i].id
                /\ dirs[k].head # Detached
                /\ worktrees'[i].branch = ListedBranch(dirs[k].head)]_vars

\* ---------------------------------------------------------- agent metrics
\* The executeTask calls that have produced their result (updateMetrics has
\* run for them), and those among them whose result is a success.
Executed == {c \in CallIds : calls[c].op = "executeTask" /\ calls[c].result # "none"}

Succeeded == {c \in Executed : calls[c].result = "success"}

\* C21: once executeTask calls have produced results, metrics.tasksCompleted
\* is the number of successes and metrics.successRate is the number of
\* successes divided by the number of executions, successes and failures
\* together.
C21_SuccessRateIsSuccessesOverAttempts ==
  Executed # {} =>
    /\ metrics.tasksCompleted = Cardinality(Succeeded)
    /\ metrics.successNum * Cardinality(Executed) = Cardinality(Succeeded) * metrics.successDen

\* ------------------------------------------------------- scoring claims
\* A step in which a findBestAgentForTask returns the best match, which it
\* has awaited on a registry and agents that stayed as they were.
LookupReturns ==
  /\ scan.op = "findBestAgentForTask" /\ scan'.op = "none"
  /\ ~scan.disturbed

\* The confidence of the match it returns.
ReturnedConfidence ==
  IF scan.best = Null \/ scan.pending > scan.bestConf THEN scan.pending ELSE scan.bestConf

\* The scenario: the frontend, the backend and the qa agent are registered
\* and Active and have executed no task yet.
ThreeFreshAgents ==
  /\ Range(agents) = {"a1", "a2", "a3"}
  /\ \A a \in AgentIds : agentStatus[a] = "active" /\ agentMetrics[a] = FreshMetrics

\* C22 as stated: in the scenario, findBestAgentForTask on the feature that
\* needs "javascript" returns the frontend agent with confidence 0.9.
C22_FrontendWinsWithNineTenths ==
  [][(LookupReturns /\ scan.task = "t1" /\ ThreeFreshAgents) =>
       /\ lastOp'.result = "a1"
       /\ ReturnedConfidence = 9000]_vars

\* C22, amended: in the scenario the frontend agent is the only candidate
\* and findBestAgentForTask returns it, with confidence
\* 0 (role) + 0.3 (capabilities) + 0.2 (load) + 0.085 (performance) = 0.585.
C22_FrontendWinsWithItsScore ==
  [][(LookupReturns /\ scan.task = "t1" /\ ThreeFreshAgents) =>
       /\ lastOp'.result = "a1"
       /\ scan.available = <<"a1">>
       /\ getRoleTaskBonus[RoleOf["a1"], TaskType["t1"]] = 0
       /\ calculateCapabilityScore["a1", "t1"] = 3000
       /\ calculateLoadScore("a1") = 2000
       /\ ReturnedConfidence = 5850]_vars

\* The lookup of the scenario has returned the frontend agent.
C22_Witness ==
  /\ lastOp.op = "findBestAgentForTask" /\ lastOp.task = "t1" /\ lastOp.clean
  /\ lastOp.result = "a1"
  /\ ThreeFreshAgents

\* A step in which assignTaskToAgent appends its TaskAssignment to the
\* history, and the confidence of that assignment.
AssignAppends == Len(assignmentHistory') = Len(assignmentHistory) + 1

AssignedConfidence == assignmentHistory'[Len(assignmentHistory')].confidence

\* The four signals of an agent for a task, as C23 lists them, and their sum
\* clipped to 1.0.
SignalsAsListed(a, t) ==
  LET role == getRoleTaskBonus[RoleOf[a], TaskType[t]]
      coverage == calculateCapabilityScore[a, t]
      load == IF agentStatus[a] = "active" THEN 2000
              ELSE IF agentStatus[a] = "busy" THEN 1000 ELSE 0
      performance == calculatePerformanceScore(a)
  IN [inRange |-> /\ role \in {0, 3000}
                  /\ coverage \in 0..3000
                  /\ performance \in 0..2000,
      sum |-> IF role + coverage + load + performance > 10000 THEN 10000
              ELSE role + coverage + load + performance]

\* The confidence assignTaskToAgent computes for the agent it has chosen is
\* the clipped sum of the four signals, taken when it is computed.
ConfidenceIsSumOfSignals ==
  (scan.pc = "matched" /\ scan'.pc = "confidence") =>
     /\ SignalsAsListed(scan.best, scan.task).inRange
     /\ scan'.conf = SignalsAsListed(scan.best, scan.task).sum

\* C23 as stated: the confidence of every TaskAssignment is within [0,1]; it
\* is exactly 1.0 when an agentId was given, and otherwise the clipped sum of
\* the four signals.
C23_ConfidenceOneWheneverIdGiven ==
  [][/\ ConfidenceIsSumOfSignals
     /\ AssignAppends =>
          /\ AssignedConfidence \in 0..10000
          /\ (scan.op = "none" \/ scan.given # Undefined) => AssignedConfidence = 10000
          /\ (scan.op # "none" /\ scan.given = Undefined) => AssignedConfidence = scan.conf]_vars

\* C23, amended: the confidence of every TaskAssignment is within [0,1]; it
\* is exactly 1.0 when a non-empty agentId was given, and otherwise (no
\* agentId, or the empty string) the clipped sum of the four signals.
C23_ConfidenceOneWhenAgentNamed ==
  [][/\ ConfidenceIsSumOfSignals
     /\ AssignAppends =>
          /\ AssignedConfidence \in 0..10000
          /\ scan.op = "none" =>
               /\ AssignedConfidence = 10000
               /\ lastOp'.result \in Range(agents)
          /\ scan.op # "none" =>
               /\ scan.given \in {Undefined, ""}
               /\ AssignedConfidence = scan.conf]_vars

\* An assignment by the scorer, of the bug fix to the qa agent, which went
\* Busy after it was chosen: 0.3 + 0.3 + 0.1 + 0.085.
C23_Witness ==
  /\ lastOp.op = "assignTaskToAgent" /\ lastOp.outcome = "ok"
  /\ assignmentHistory # << >>
  /\ assignmentHistory[Len(assignmentHistory)] =
       [taskId |-> "t4", agentId |-> "a3", confidence |-> 7850]

\* A task with no technical requirement.
ZeroTechnical(t) == \A j \in 1..Len(TaskRequirements[t]) : TaskRequirements[t][j].type # "technical"

\* C24: a findBestAgentForTask for a task with no technical requirement
\* takes every registered agent whose status is Active as a candidate (none
\* is there exactly when it returns no match at once), and the confidence it
\* computes for each candidate is the clipped sum of the role, load and
\* performance terms and a capability-coverage term of exactly 0.2.
C24_NoRequirementMeansEveryActiveAgent ==
  [][\A t \in {x \in Tasks : ZeroTechnical(x)} :
       LET active == {a \in Range(agents) : agentStatus[a] = "active"}
       IN /\ (scan.op = "none" /\ scan'.op = "findBestAgentForTask" /\ scan'.task = t) =>
               Range(scan'.available) = active
          /\ (scan.op = "none" /\ lastOp' # lastOp
                /\ lastOp'.op = "findBestAgentForTask" /\ lastOp'.task = t) =>
               active = {}
          /\ (scan'.pc = "scoring" /\ scan'.task = t
                /\ (scan.op = "none" \/ scan'.idx = scan.idx + 1)) =>
               LET a == scan'.available[scan'.idx]
                   sum == getRoleTaskBonus[RoleOf[a], TaskType[t]] + 2000
                            + calculateLoadScore(a) + calculatePerformanceScore(a)
               IN scan'.pending = IF sum > 10000 THEN 10000 ELSE sum]_vars

\* The third of three Active agents is being scored for the test that has
\* only a quality requirement.
C24_Witness ==
  /\ scan.op = "findBestAgentForTask" /\ scan.task = "t5"
  /\ Len(scan.available) = 3 /\ scan.idx = 3
  /\ \A a \in AgentIds : agentStatus[a] = "active"

\* A step of an assignTaskToAgent call: the call up to its first await or to
\* its end, or one of its resumptions (the lookup's loop, the confidence, the
\* push).  A step of another caller while the call awaits is not one: it
\* leaves the call where it is.
AssignStep ==
  \/ AssignCalled
  \/ /\ scan.op = "assignTaskToAgent"
     /\ scan' # scan
     /\ scan'.op = "none" \/ scan'.disturbed = scan.disturbed

C30_HistoryIsLastThousandEmitted ==
  /\ Len(eventHistory) <= 1000
  /\ Len(eventHistory) = Min(emitted, 1000)
  /\ \A i \in 1..Len(eventHistory) :
       eventHistory[i].seq = emitted - Len(eventHistory) + i

\* Two events were evicted: the history is full and starts at the third.
C30_Witness ==
  /\ emitted = 1002
  /\ Len(eventHistory) = 1000
  /\ eventHistory[1].seq = 3
  /\ eventHistory[1000].seq = 1002

\* The lines of the file that was parsed, the first being line 1.
SourceLines == Split(source.content, NL)

\* The line numbers of the lines that start with a marker.
MarkerLines(marker) == {i \in 1..Len(SourceLines) : StartsWith(SourceLines[i], marker)}

\* The k-th smallest number of a set.
Kth(S, k) == CHOOSE i \in S : Cardinality({j \in S : j < i}) = k - 1

\* The lines from line i on are content and well-formed blocks: a <<<<<<<
\* line, content, a ======= line, content, a >>>>>>> line.
RECURSIVE WellFormedFrom(_, _)
WellFormedFrom(i, phase) ==
  IF i > Len(SourceLines) THEN phase = "text"
  ELSE LET line == SourceLines[i]
           opens == StartsWith(line, OursMarker)
           separates == StartsWith(line, SeparatorMarker)
           closes == StartsWith(line, TheirsMarker)
       IN CASE phase = "text" ->
                 IF opens THEN WellFormedFrom(i + 1, "ours")
                 ELSE ~separates /\ ~closes /\ WellFormedFrom(i + 1, "text")
            [] phase = "ours" ->
                 IF separates THEN WellFormedFrom(i + 1, "theirs")
                 ELSE ~opens /\ ~closes /\ WellFormedFrom(i + 1, "ours")
            [] phase = "theirs" ->
                 IF closes THEN WellFormedFrom(i + 1, "text")
                 ELSE ~opens /\ ~separates /\ WellFormedFrom(i + 1, "theirs")

\* C28: parsing a file of N well-formed conflict-marker blocks yields N
\* sections in file order, the k-th with startLine the 1-based number of the
\* k-th <<<<<<< line and endLine the 1-based number of the k-th >>>>>>> line.
C28_SectionsMatchMarkerLines ==
  (parsed.file # Null /\ WellFormedFrom(1, "text")) =>
     /\ Len(parsed.sections) = Cardinality(MarkerLines(OursMarker))
     /\ \A k \in 1..Len(parsed.sections) :
          /\ parsed.sections[k].startLine = Kth(MarkerLines(OursMarker), k)
          /\ parsed.sections[k].endLine = Kth(MarkerLines(TheirsMarker), k)

\* A file of two blocks was parsed: lines 1 to 3 and lines 4 to 6.
C28_Witness ==
  /\ parsed.file # Null /\ WellFormedFrom(1, "text")
  /\ Len(parsed.sections) = 2
  /\ parsed.sections[1].startLine = 1 /\ parsed.sections[1].endLine = 3
  /\ parsed.sections[2].startLine = 4 /\ parsed.sections[2].endLine = 6

\* The first strategy, in the order of the list, whose canResolve accepts
\* the conflict; Null when none does.
FirstAccepting(list, conflict) ==
  LET accepting == {i \in 1..Len(list) : canResolve(list[i], conflict)}
  IN IF accepting = {} THEN Null
     ELSE list[CHOOSE i \in accepting : \A j \in accepting : i <= j]

\* The list starts with the built-ins in the order of C26, and the
\* strategies added by registerStrategy follow in the order they were added.
RegistrationOrderKept ==
  /\ SubSeq(strategies', 1, 4) =
       <<"Whitespace Conflict Resolver", "Import Order Conflict Resolver",
         "Simple Addition Conflict Resolver", "Package.json Conflict Resolver">>
  /\ SubSeq(strategies', 1, Len(strategies)) = strategies

\* The numbers of the conflicts the step pushed a result for.
NewResults == (Len(run.results) + 1)..Len(run'.results)

\* The step has resolveConflicts wait for the resolve of a strategy.
StrategyApplied == run'.pc = "awaiting" /\ run' # run

\* C26 (as claimed): for every conflict, the strategy resolveConflicts
\* applies is the first strategy in registration order whose canResolve
\* accepts it: a conflict is left without a strategy only when none accepts.
C26_FirstAcceptingStrategyApplied ==
  [][/\ RegistrationOrderKept
     /\ StrategyApplied =>
          run'.strategy = FirstAccepting(strategies, run'.conflicts[run'.idx])
     /\ \A k \in NewResults :
          /\ run'.results[k].success => run'.results[k].strategy = run.strategy
          /\ run'.results[k].error = "NoStrategy" =>
               FirstAccepting(strategies, run'.conflicts[k]) = Null]_vars

\* C26 (amended): for every conflict flagged autoResolvable, the strategy
\* resolveConflicts applies is the first strategy in registration order
\* whose canResolve accepts it; a conflict that is not flagged, or that no
\* strategy accepts, has no strategy applied.
C26_FirstAcceptingAppliedWhenFlagged ==
  [][/\ RegistrationOrderKept
     /\ StrategyApplied =>
          /\ run'.conflicts[run'.idx].autoResolvable
          /\ run'.strategy = FirstAccepting(strategies, run'.conflicts[run'.idx])
     /\ \A k \in NewResults :
          /\ run'.results[k].success => run'.results[k].strategy = run.strategy
          /\ run'.results[k].error = "NoStrategy" =>
               \/ ~run'.conflicts[k].autoResolvable
               \/ FirstAccepting(strategies, run'.conflicts[k]) = Null]_vars

\* The strategy that takes every conflict was registered and applied to the
\* first conflict of a batch; the second conflict is the manifest, which the
\* built-in manifest strategy and both added strategies accept, and the
\* built-in one is applied.
C26_Witness ==
  /\ run.pc = "awaiting" /\ run.idx = 2
  /\ run.results[1].success /\ run.results[1].strategy = "Take Ours"
  /\ run.strategy = "Package.json Conflict Resolver"
  /\ Len(strategies) = 6

\* The results that report a resolution.
ResolvedResults(results) == SelectSeq(results, LAMBDA r : r.success)

\* C27: resolveConflicts returns one result per conflict, in the order of
\* the conflicts; a conflict that no strategy accepts, or whose resolve or
\* write-back throws, gets a failed result and the conflicts behind it are
\* still processed; and the resolved-conflict events, each tagged with the
\* name of the strategy, are exactly those of the conflicts resolved.
C27_OneResultPerConflict ==
  [][/\ run'.pc = "done" => Len(run'.results) = Len(run'.conflicts)
     /\ run'.pc = "awaiting" =>
          Len(run'.results) = run'.idx - 1 /\ run'.idx <= Len(run'.conflicts)
     /\ SubSeq(run'.results, 1, Len(run.results)) = run.results
     /\ \A k \in 1..Len(run'.results) : run'.results[k].file = run'.conflicts[k].file
     /\ \A k \in NewResults :
          /\ FirstAccepting(strategies, run'.conflicts[k]) = Null => ~run'.results[k].success
          /\ run'.results[k].error \in {"ResolveThrew", "WriteThrew"} => ~run'.results[k].success
          /\ run'.results[k].success <=> run'.results[k].error = Null
     /\ LET resolved == ResolvedResults(run'.results)
        IN /\ Len(eventHistory') = Len(resolved)
           /\ \A i \in 1..Len(resolved) :
                /\ eventHistory'[i].type = "git:conflict"
                /\ eventHistory'[i].data = [file |-> resolved[i].file, resolved |-> TRUE,
                                            strategy |-> resolved[i].strategy]]_vars

\* A batch of two ended: the write-back of the first conflict failed, the
\* second was resolved, and the one event is that of the second.
C27_Witness ==
  /\ run.pc = "done" /\ Len(run.conflicts) = 2
  /\ ~run.results[1].success /\ run.results[1].error = "WriteThrew"
  /\ run.results[2].success
  /\ Len(eventHistory) = 1 /\ eventHistory[1].data.file = run.conflicts[2].file
  /\ run.conflicts[1].file # run.conflicts[2].file

\* The import lines of both sides of the file that was parsed.
SourceImports == {line \in Range(SourceLines) : StartsWith(line, <<"i", "m", "p", "o", "r", "t", " ">>)}

\* The path of an import line: the text in its quotes.
ImportPath(line) ==
  LET opening == CHOOSE i \in 1..Len(line) :
                   line[i] = "'" /\ \A j \in 1..(i - 1) : line[j] # "'"
      closing == CHOOSE i \in (opening + 1)..Len(line) :
                   line[i] = "'" /\ \A j \in (opening + 1)..(i - 1) : line[j] # "'"
  IN SubSeq(line, opening + 1, closing - 1)

IsRelative(line) == Head(ImportPath(line)) = "."

\* The lines of the content that resolveConflicts wrote: the content ends
\* with a line feed.
WrittenLines ==
  LET lines == Split(written[1].content, NL)
  IN SubSeq(lines, 1, Len(lines) - 1)

\* C29: for a source file whose conflict holds only import lines that differ
\* between the sides, the conflict is autoResolvable, the strategy chosen is
\* the Import Order Conflict Resolver, and the content written is the union
\* of the import lines of both sides, without duplicates, every import of a
\* package before every relative import, each group in the alphabetical
\* order of the import paths.
C29_ImportConflictResolvedToSortedUnion ==
  /\ parsed.file # Null => parsed.autoResolvable
  /\ run.pc = "awaiting" => run.strategy = "Import Order Conflict Resolver"
  /\ written # << >> =>
       /\ Range(WrittenLines) = SourceImports
       /\ Len(WrittenLines) = Cardinality(SourceImports)
       /\ \A i, j \in 1..Len(WrittenLines) :
            i < j =>
              /\ ~(IsRelative(WrittenLines[i]) /\ ~IsRelative(WrittenLines[j]))
              /\ IsRelative(WrittenLines[i]) = IsRelative(WrittenLines[j]) =>
                   localeCompare(ImportPath(WrittenLines[i]), ImportPath(WrittenLines[j])) <= 0

\* The lines from..to of the file that was parsed, each followed by a line
\* feed, as one text.
LinesText(from, to) ==
  Concat([i \in 1..(to - from + 1) |-> SourceLines[from + i - 1] \o <<NL>>])

\* C38: in each section parseConflictFile produces for a file of well-formed
\* blocks, ours is the lines between the <<<<<<< line and the ======= line,
\* and theirs the lines between the ======= line and the >>>>>>> line (an
\* undefined theirs counts as no line).
C38_SidesAreTheirOwnLines ==
  (parsed.file # Null /\ WellFormedFrom(1, "text")) =>
     \A k \in 1..Len(parsed.sections) :
       LET opening == parsed.sections[k].startLine
           closing == parsed.sections[k].endLine
           separator == CHOOSE i \in opening..closing : StartsWith(SourceLines[i], SeparatorMarker)
       IN /\ parsed.sections[k].ours = LinesText(opening + 1, separator - 1)
          /\ OrEmpty(parsed.sections[k].theirs) = LinesText(separator + 1, closing - 1)

\* C37: the content resolveConflicts writes back for a file with one
\* conflict block keeps the lines before the block and the lines behind it,
\* unchanged and in order, around what it writes for the block.
C37_WriteBackKeepsLinesOutside ==
  written # << >> =>
     LET opening == CHOOSE i \in 1..Len(SourceLines) : StartsWith(SourceLines[i], OursMarker)
         closing == CHOOSE i \in 1..Len(SourceLines) : StartsWith(SourceLines[i], TheirsMarker)
         before == SubSeq(SourceLines, 1, opening - 1)
         behind == SubSeq(SourceLines, closing + 1, Len(SourceLines))
         lines == Split(written[1].content, NL)
         kept == IF lines[Len(lines)] = << >> THEN SubSeq(lines, 1, Len(lines) - 1) ELSE lines
     IN /\ Len(kept) >= Len(before) + Len(behind)
        /\ SubSeq(kept, 1, Len(before)) = before
        /\ SubSeq(kept, Len(kept) - Len(behind) + 1, Len(kept)) = behind

\* C32: once a stop() has completed and left the agent Inactive, a task body
\* that was running when that stop() was called, and finishes afterwards,
\* leaves the status Inactive.
C32_StoppedStaysInactive ==
  [][\A stopped, running \in CallIds :
       (/\ status = "inactive"
        /\ calls[stopped].op = "stop" /\ calls[stopped].pc = "returned"
        /\ running < stopped
        /\ calls[running].pc = "e_body" /\ calls[stopped].taskAtCall = calls[running].task
        /\ calls'[running].pc # "e_body")
         => status' = "inactive"]_vars

\* C34: while a task body runs on the agent, the status is Busy and the
\* current task is the task of that body; and no two task bodies run at the
\* same time.  Stated for the runs in which executeTask is the only operation
\* called, so that the calls overlap with nothing but each other.
C34_OneBodyOnABusyAgent ==
  (\A c \in CallIds : calls[c].op \in {"none", "executeTask"}) =>
    /\ \A c \in CallIds :
         calls[c].pc = "e_body" => status = "busy" /\ currentTask = calls[c].task
    /\ Cardinality({c \in CallIds : calls[c].pc = "e_body"}) <= 1

\* The terminal events of an executeTask call that has returned: those the
\* call emitted itself, and the task:failed of a stop() or restart() called
\* after it that cancelled its task.
TerminalEvents(c) ==
  CountOf(calls[c].trace, "task:completed") + CountOf(calls[c].trace, "task:failed")
    + Cardinality({d \in CallIds : /\ d > c
                                   /\ calls[d].op \in {"stop", "restart"}
                                   /\ calls[c].bodyRan
                                   /\ calls[d].held = calls[c].task})

\* C35: an executeTask call that emitted task:started and has returned has
\* exactly one terminal event for its task, task:completed or task:failed,
\* also when stop() was called while its task body ran.
C35_OneTerminalEventPerExecution ==
  \A c \in CallIds :
    (calls[c].op = "executeTask" /\ calls[c].pc = "returned"
       /\ Emitted(calls[c].trace, "task:started"))
      => TerminalEvents(c) = 1

\* C36: an executeTask call emits task:completed only when its TaskResult
\* has success true; when the result has success false, also one that the
\* task body returned without throwing, the call emits task:failed.
C36_CompletedOnlyOnSuccess ==
  \A c \in CallIds :
    (calls[c].op = "executeTask" /\ calls[c].pc = "returned") =>
      /\ Emitted(calls[c].trace, "task:completed") => calls[c].result = "success"
      /\ calls[c].result # "success" =>
           /\ Emitted(calls[c].trace, "task:failed")
           /\ ~Emitted(calls[c].trace, "task:completed")

\* C33: whenever a TaskAssignment is appended to the assignment history, the
\* agent it names is registered and Active at that moment, also when the
\* agent's status changed while assignTaskToAgent was awaiting its scores.
C33_AssignedAgentIsActive ==
  [][Len(assignmentHistory') > Len(assignmentHistory) =>
       LET assigned == assignmentHistory'[Len(assignmentHistory')].agentId
       IN  /\ assigned \in Range(agents)
           /\ agentStatus[assigned] = "active"]_vars

\* C39: every worktree record the manager holds with status active has its
\* directory on the disk, at the record's path.
C39_ActiveWorktreeHasItsDirectory ==
  \A i \in 1..Len(worktrees) :
    worktrees[i].status = "active" => worktrees[i].path \in Paths(dirs)

\* ---------------------------------------------------------- ConfigManager
\* A configuration document, as far as configSchema tells documents apart:
\* the top-level keys it has, and of its project section the required name
\* and description (absent: undefined) and the optional maxAgents (absent:
\* the empty tuple).
RequiredSections ==
  {"project", "git", "agents", "messaging", "monitoring", "integrations", "security"}

Document(sections, name, description, projectMaxAgents) ==
  [kind |-> "config", sections |-> sections, name |-> name,
   description |-> description, maxAgents |-> projectMaxAgents]

\* The documents given to save and found in the file: complete ones, ones
\* that lack a section, ones with a key the schema does not know.
SectionInputs ==
  {RequiredSections, RequiredSections \ {"git"}, RequiredSections \ {"agents"},
   RequiredSections \cup {"extra"}}

DocumentInputs ==
  {Document(sections, name, description, projectMaxAgents) :
     sections \in SectionInputs, name \in {Undefined, "p"},
     description \in {Undefined, "d"}, projectMaxAgents \in {<< >>, <<0>>, <<25>>}}

\* The file at configPath: none, one that is not JSON, or a document
\* (JSON.stringify writes the keys a document has, JSON.parse reads them).
NotJson == [kind |-> "text"]

stringify(document) == [kind |-> "json", document |-> document]

FileInputs == {NoFile, NotJson} \cup {stringify(d) : d \in DocumentInputs}

\* process.env.MADO_PROJECT_NAME: unset, or a name.
EnvInputs == {Undefined, "e"}

\* ConfigManager.mergeWithEnvironment: deepMerge puts a project, a git and
\* an integrations object into the result whether the document has them or
\* not, and the name of the environment over the document's.
mergeWithEnvironment(document, env) ==
  [document EXCEPT !.sections = @ \cup {"project", "git", "integrations"},
                   !.name = IF env # Undefined THEN env ELSE @]

\* configSchema.validate: the error, and the value (unknown keys stripped
\* where stripUnknown is set, defaults filled in).
validate(document, stripUnknown) ==
  LET unknown == document.sections \ RequiredSections
      error == \/ ~(RequiredSections \subseteq document.sections)
               \/ document.name = Undefined
               \/ document.description = Undefined
               \/ (document.maxAgents # << >> /\ document.maxAgents[1] \notin 1..50)
               \/ (unknown # {} /\ ~stripUnknown)
  IN  [error |-> error,
       value |-> [document EXCEPT !.sections = @ \ unknown,
                                  !.maxAgents = IF @ = << >> THEN <<10>> ELSE @]]

\* What a ConfigManager call that ended did.
ConfigEnded(op, outcome, result) == [op |-> op, outcome |-> outcome, result |-> result]

\* ConfigManager.load.
load(env) ==
  /\ IF configFile = NoFile
       THEN /\ lastConfig' = ConfigEnded("load", "ENOENT", NoConfig)
            /\ UNCHANGED managerConfig
     ELSE IF configFile = NotJson
       THEN /\ lastConfig' = ConfigEnded("load", "SyntaxError", NoConfig)
            /\ UNCHANGED managerConfig
     ELSE LET validated == validate(mergeWithEnvironment(configFile.document, env), TRUE)
          IN IF validated.error
               THEN /\ lastConfig' = ConfigEnded("load", "ValidationFailed", NoConfig)
                    /\ UNCHANGED managerConfig
               ELSE /\ managerConfig' = validated.value
                    /\ lastConfig' = ConfigEnded("load", "ok", validated.value)
  /\ UNCHANGED configFile

\* ConfigManager.get.
get ==
  /\ lastConfig' = IF managerConfig = NoConfig
                     THEN ConfigEnded("get", "NotLoaded", NoConfig)
                     ELSE ConfigEnded("get", "ok", managerConfig)
  /\ UNCHANGED <<managerConfig, configFile>>

\* A save that writes the file before it validates.
saveWritesFirst(document, writeOk) ==
  IF ~writeOk
    THEN /\ lastConfig' = ConfigEnded("save", "WriteFailed", NoConfig)
         /\ UNCHANGED <<managerConfig, configFile>>
  ELSE /\ configFile' = stringify(document)
       /\ IF validate(document, FALSE).error
            THEN /\ lastConfig' = ConfigEnded("save", "ValidationFailed", NoConfig)
                 /\ UNCHANGED managerConfig
            ELSE /\ managerConfig' = document
                 /\ lastConfig' = ConfigEnded("save", "ok", document)

\* ConfigManager.save; writeOk says whether fs.writeFileSync returns.
save(document, writeOk) ==
  IF validate(document, FALSE).error
    THEN /\ lastConfig' = ConfigEnded("save", "ValidationFailed", NoConfig)
         /\ UNCHANGED <<managerConfig, configFile>>
  ELSE IF ~writeOk
    THEN /\ lastConfig' = ConfigEnded("save", "WriteFailed", NoConfig)
         /\ UNCHANGED <<managerConfig, configFile>>
  ELSE /\ configFile' = stringify(document)
       /\ managerConfig' = document
       /\ lastConfig' = ConfigEnded("save", "ok", document)

outsideConfig ==
  <<agentVars, regVars, supVars, wtVars, gitVars, cwd, personalWorktree, bodies>>

LoadConfig == (\E env \in EnvInputs : load(env)) /\ UNCHANGED outsideConfig

GetConfig == get /\ UNCHANGED outsideConfig

SaveConfig ==
  /\ \E document \in DocumentInputs, writeOk \in BOOLEAN : save(document, writeOk)
  /\ UNCHANGED outsideConfig

\* Someone else writes the file.
FileEdited ==
  /\ configFile' \in FileInputs
  /\ UNCHANGED <<managerConfig, lastConfig, outsideConfig>>

\* The manager as constructed, over whatever is at its path.
ConfigInit ==
  /\ status = "inactive" /\ healthCheckInterval = {} /\ timers = {}
  /\ currentTask = Null
  /\ metrics = [tasksCompleted |-> 0, successNum |-> 0, successDen |-> 1]
  /\ calls = [c \in CallIds |-> IdleCall]
  /\ microQ = << >>
  /\ agents = << >>
  /\ agentConfigs = EmptyMap
  /\ agentStatus = [a \in AgentIds |-> "inactive"]
  /\ agentMetrics = [a \in AgentIds |-> FreshMetrics]
  /\ stopping = {}
  /\ scan = IdleScan
  /\ lastOp = Ended("none", "ok", Null, << >>)
  /\ autoRestart = TRUE
  /\ registryHealthCheckInterval = {} /\ registryTimers = {}
  /\ poll = IdlePoll /\ restarting = {} /\ uncaught = {}
  /\ lastPoll = NoPoll
  /\ worktrees = << >> /\ dirs = << >> /\ now = 0
  /\ lastWt = NoWt
  /\ managerConfig = NoConfig /\ configFile \in FileInputs /\ lastConfig = NoConfigCall
  /\ cwd = ProcessDirectory /\ personalWorktree = NoWorktrees /\ bodies = IdleBodies
  /\ strategies = DefaultStrategies /\ run = IdleRun /\ written = << >>
  /\ source = NoSource /\ parsed = NoConflict
  /\ eventHistory = << >> /\ emitted = 0
  /\ assignmentHistory = << >>

ConfigNext ==
  \/ LoadConfig
  \/ GetConfig
  \/ SaveConfig
  \/ FileEdited

SpecConfig == ConfigInit /\ [][ConfigNext]_vars

\* C31: get fails with "Configuration not loaded" as long as no load and no
\* save has succeeded (the configuration held is null until one does, and
\* never again after); a load and a save whose validation reports an error
\* fail with "Configuration validation failed", and a call that fails so
\* leaves the file and the configuration held as they were.
C31_ConfigHeldOnlyWhenValid ==
  [][/\ (lastConfig' # lastConfig /\ lastConfig'.op = "get") =>
          (lastConfig'.outcome = "NotLoaded") = (managerConfig = NoConfig)
     /\ (managerConfig = NoConfig /\ managerConfig' # NoConfig) =>
          lastConfig'.op \in {"load", "save"} /\ lastConfig'.outcome = "ok"
     /\ (lastConfig' # lastConfig /\ lastConfig'.op \in {"load", "save"}
           /\ lastConfig'.outcome = "ok") => managerConfig' # NoConfig
     /\ managerConfig # NoConfig => managerConfig' # NoConfig
     /\ \A document \in DocumentInputs, writeOk \in BOOLEAN :
          (save(document, writeOk) /\ validate(document, FALSE).error) =>
            lastConfig'.outcome = "ValidationFailed"
     /\ \A env \in EnvInputs :
          (/\ load(env)
           /\ configFile \notin {NoFile, NotJson}
           /\ validate(mergeWithEnvironment(configFile.document, env), TRUE).error) =>
            lastConfig'.outcome = "ValidationFailed"
     /\ (lastConfig' # lastConfig /\ lastConfig'.outcome = "ValidationFailed") =>
          /\ configFile' = configFile
          /\ managerConfig' = managerConfig]_vars

\* A save of an invalid document failed while the manager held a
\* configuration, which it still holds, and the file still has the document
\* of the save before.
C31_Witness ==
  /\ lastConfig.op = "save" /\ lastConfig.outcome = "ValidationFailed"
  /\ managerConfig # NoConfig
  /\ configFile = stringify(managerConfig)

\* ------------------------------------------ DevelopmentAgent.performTask
outsideDevelopment ==
  <<agentVars, regVars, supVars, wtVars, gitVars, managerConfig, configFile, lastConfig>>

\* performTask of agent a up to its first await: process.chdir to the
\* agent's worktree (to its workingDirectory, the base directory, when it has
\* none), then the call of the method for the task's type.  A chdir that
\* throws (chdirOk false) ends the call in its catch block.
performTask(a, type, chdirOk) ==
  /\ bodies[a].pc = "idle"
  /\ IF chdirOk
       THEN /\ cwd' = IF personalWorktree[a] # NoText THEN personalWorktree[a]
                      ELSE baseWorkingDirectory
            /\ bodies' = [bodies EXCEPT ![a] = [pc |-> "implementing", type |-> type,
                                                changed |-> FALSE]]
       ELSE UNCHANGED <<cwd, bodies>>
  /\ UNCHANGED <<personalWorktree, outsideDevelopment>>

\* The method for the task's type settles: performTask goes on to await
\* gitRepository.getStatus(), or ends in its catch block.
ImplementSettles(a, ok) ==
  /\ bodies[a].pc = "implementing"
  /\ bodies' = [bodies EXCEPT ![a] = IF ok THEN [@ EXCEPT !.pc = "status"] ELSE IdleBody]
  /\ UNCHANGED <<cwd, personalWorktree, outsideDevelopment>>

\* getStatus settles: with changed files performTask awaits the commit,
\* without it returns; it ends in its catch block when getStatus threw.
StatusSettles(a, ok, changed) ==
  /\ bodies[a].pc = "status"
  /\ bodies' = [bodies EXCEPT ![a] = IF ok /\ changed
                                       THEN [@ EXCEPT !.pc = "committing", !.changed = TRUE]
                                       ELSE IdleBody]
  /\ UNCHANGED <<cwd, personalWorktree, outsideDevelopment>>

\* The commit settles, and performTask returns its result.
CommitSettles(a) ==
  /\ bodies[a].pc = "committing"
  /\ bodies' = [bodies EXCEPT ![a] = IdleBody]
  /\ UNCHANGED <<cwd, personalWorktree, outsideDevelopment>>

\* The agents after their initialize(): each has its worktree.
DevelopmentInit ==
  /\ status = "inactive" /\ healthCheckInterval = {} /\ timers = {}
  /\ currentTask = Null
  /\ metrics = [tasksCompleted |-> 0, successNum |-> 0, successDen |-> 1]
  /\ calls = [c \in CallIds |-> IdleCall]
  /\ microQ = << >>
  /\ agents = << >>
  /\ agentConfigs = EmptyMap
  /\ agentStatus = [a \in AgentIds |-> "inactive"]
  /\ agentMetrics = [a \in AgentIds |-> FreshMetrics]
  /\ stopping = {}
  /\ scan = IdleScan
  /\ lastOp = Ended("none", "ok", Null, << >>)
  /\ autoRestart = TRUE
  /\ registryHealthCheckInterval = {} /\ registryTimers = {}
  /\ poll = IdlePoll /\ restarting = {} /\ uncaught = {}
  /\ lastPoll = NoPoll
  /\ worktrees = << >> /\ dirs = << >> /\ now = 0
  /\ lastWt = NoWt
  /\ managerConfig = NoConfig /\ configFile = NoFile /\ lastConfig = NoConfigCall
  /\ cwd = ProcessDirectory /\ personalWorktree = [a \in DevelopmentAgents |-> generateWorktreePath(a)] /\ bodies = IdleBodies
  /\ strategies = DefaultStrategies /\ run = IdleRun /\ written = << >>
  /\ source = NoSource /\ parsed = NoConflict
  /\ eventHistory = << >> /\ emitted = 0
  /\ assignmentHistory = << >>

DevelopmentNext ==
  \/ \E a \in DevelopmentAgents, type \in SupportedTaskTypes, chdirOk \in BOOLEAN :
       performTask(a, type, chdirOk)
  \/ \E a \in DevelopmentAgents, ok \in BOOLEAN : ImplementSettles(a, ok)
  \/ \E a \in DevelopmentAgents, ok \in BOOLEAN, changed \in BOOLEAN : StatusSettles(a, ok, changed)
  \/ \E a \in DevelopmentAgents : CommitSettles(a)

SpecDevelopment == DevelopmentInit /\ [][DevelopmentNext]_vars

\* C40: while the task body of an agent runs, the working directory of the
\* process is the worktree of that agent.
C40_BodyRunsInItsOwnWorktree ==
  \A a \in DevelopmentAgents :
    bodies[a].pc # "idle" => cwd = personalWorktree[a]

====
